---- MODULE Spec2Model ----
(***************************************************************************)
(* Content lifecycle engine of the confession bot (src/bot.py): the        *)
(* confession store, moderation callbacks with the retrying channel        *)
(* publish, sequential numbering, and the like/dislike ledger with karma.  *)
(*                                                                         *)
(* Handlers are aiogram coroutines run as concurrent tasks on one event    *)
(* loop; the pymongo calls are synchronous, so a handler is atomic between *)
(* two awaits of a Telegram call.  Each action below is one such atomic    *)
(* stretch of a handler.                                                   *)
(***************************************************************************)
EXTENDS Integers, Sequences, FiniteSets, TLC

\* ------------------------------------------------------------------ bounds
MaxConf == 2
MaxComments == 1
MaxInFlight == 2
MaxClicks == 2
MaxThreads == 1
MaxAuthors == 1
MaxTasks == 2
MaxTicks == 11
TickSeconds == 30
MaxReplies == 3
MaxCommenters == 2
MaxShape == 4
MaxLong == 21
MaxNickDays == 70

\* --------------------------------------------------------------- constants
Users == {1, 2, 3}
ADMIN_IDS == {1, 2}
max_attempts == 3
None == 0
CONFESSION_COOLDOWN == 300
NICKNAME_CHANGE_COOLDOWN == 30 * 24 * 60 * 60
ViewCap == 20
AVAILABLE_TAGS == {"Love", "Other"}
\* time.time() when the bot starts: any value past the cooldown
Epoch == 1000

VARIABLES
    conf_col,            \* confession documents by _id
    karma_col,           \* karma per user (a missing document reads as 0)
    GLOBAL_AUTO_APPROVE, \* the auto-approve switch
    next_id,             \* next _id the store hands out
    handler,             \* per user: the publish_confession call in flight
    channel,             \* posts sent to CHANNEL_ID, in order
    alerts,              \* confessions an operator alert was sent for
    top_number,          \* history: the highest number ever given to a confession
    mod_ok,              \* history: per confession, moderator actions that passed the guard
    last,                \* history: the last ledger cast and the one before it
    clock,               \* time.time(), in seconds
    last_confession_time,\* the cooldown table: user -> time of the last stored confession
    fsm,                 \* per user: FSM state and data of the dialogue in progress
    tasks,               \* per user: dialogue handlers suspended at a Telegram call
    conf_text,           \* per confession: the stored text (length) and media flag
    users_col,           \* profile documents by user id
    ANONYMOUS_ID_MAP     \* users with an anonymous id in the in-memory map

\* the submission and comment dialogues
\* the dialogues' own state, and with it the map of the profile links
drafts == <<clock, last_confession_time, fsm, tasks, conf_text, users_col>>
dialogue == <<clock, last_confession_time, fsm, tasks, conf_text, users_col,
             ANONYMOUS_ID_MAP>>

vars == <<conf_col, karma_col, GLOBAL_AUTO_APPROVE, next_id, handler, channel,
          alerts, top_number, mod_ok, last, dialogue>>

ConfIds == 1..MaxConf
Unseen == [ok |-> FALSE]
Idle == [pc |-> "idle", conf |-> 0, final_number |-> None, attempt |-> 0, by |-> "none",
         kind |-> "none", idx |-> 0 - 1, vote_type |-> "none", seen |-> Unseen]
NoCast == [kind |-> "none", rep |-> FALSE, self |-> FALSE]
Sending(c, n, who) ==
    [Idle EXCEPT !.pc = "send", !.conf = c, !.final_number = n, !.by = who]

\* callback data of the tag keyboard: tag:Done, tag:Auto, tag:<tag>
TagActions == {"Done", "Auto"} \cup AVAILABLE_TAGS
\* handlers suspended at a Telegram call: cmd_confess_start and
\* handle_confession_text at msg.answer (the latter before set_state or,
\* on a command, before state.clear), cb_comment_start before the fallback
\* to a top-level comment, handle_comment_submission before its final
\* state.clear, handle_tag_selection at
\* callback.answer (with the button it was sent)
TaskKinds == {"confess", "text", "cancel", "fallback", "edit_nickname"} \cup TagActions
NoTasks == [k \in TaskKinds |-> 0]

\* FSMContext of a user with no state and no data (state.clear())
NoData == [state |-> "none", has_draft |-> FALSE, text |-> 0, media |-> FALSE,
           selected_tags |-> {}, target_conf_id |-> None, parent_index |-> 0 - 1]

\* ------------------------------------------------------------------ helpers
SetMax(S) == CHOOSE m \in S : \A x \in S : x <= m

\* src/bot.py:2121 next_conf_number: highest number among approved, numbered
\* documents plus one, else 1.
next_conf_number ==
    LET nums == {conf_col[c].number : c \in {d \in DOMAIN conf_col :
                    conf_col[d].approved /\ conf_col[d].number # None}}
    IN IF nums # {} THEN SetMax(nums) + 1 ELSE 1

\* ``doc.get("number") or next_conf_number()'' (src/bot.py:2137)
final_number_of(doc) == IF doc.number # None THEN doc.number ELSE next_conf_number

\* a document numbered at submit whatever the auto-approve switch says
NewDoc_numbers_pending(u) ==
    [user_id |-> u,
     approved |-> GLOBAL_AUTO_APPROVE,
     number |-> next_conf_number,
     channel_message_id |-> None,
     likes |-> 0, dislikes |-> 0,
     voters |-> <<>>,
     comments |-> <<>>]

\* the document submit_confession_to_db builds (src/bot.py:2067)
NewDoc(u) ==
    [user_id |-> u,
     approved |-> GLOBAL_AUTO_APPROVE,
     number |-> IF GLOBAL_AUTO_APPROVE THEN next_conf_number ELSE None,
     channel_message_id |-> None,
     likes |-> 0, dislikes |-> 0,
     voters |-> <<>>,
     comments |-> <<>>]

Insert(c, doc) == [x \in DOMAIN conf_col \cup {c} |-> IF x = c THEN doc ELSE conf_col[x]]
Delete(c) == [x \in DOMAIN conf_col \ {c} |-> conf_col[x]]

\* history of number assignments: a write that gives a document a number it
\* did not hold raises the high-water mark
Logged(old, new) == IF new # None /\ new # old /\ new > top_number THEN new ELSE top_number

InFlight == {u \in Users : handler[u].pc # "idle"}
Posts(c) == Len(channel[c])

Bump(f, c) == [f EXCEPT ![c] = @ + 1]

\* the profile get_user_profile creates for a user it has no document of,
\* and the profile of a user who pressed the agree button
NewProfile == [nickname |-> 0, last_nickname_change |-> None, agreed_to_rules |-> FALSE]
Member == [NewProfile EXCEPT !.agreed_to_rules = TRUE]

\* ------------------------------------------------------------------- state
Init ==
    /\ conf_col = <<>>
    /\ karma_col = [u \in Users |-> 0]
    /\ GLOBAL_AUTO_APPROVE = FALSE
    /\ next_id = 1
    /\ handler = [u \in Users |-> Idle]
    /\ channel = [c \in ConfIds |-> <<>>]
    /\ alerts = {}
    /\ top_number = 0
    /\ mod_ok = [c \in ConfIds |-> 0]
    /\ last = NoCast
    /\ clock = Epoch
    /\ last_confession_time = <<>>
    /\ fsm = [u \in Users |-> NoData]
    /\ tasks = [u \in Users |-> NoTasks]
    /\ conf_text = [c \in ConfIds |-> None]
    /\ users_col = [u \in Users |-> Member]
    /\ ANONYMOUS_ID_MAP = {}

\* ------------------------------------------------------------- submission
\* submit_confession_to_db: the Done confirmation of the draft.  With
\* auto-approve on, the document is inserted approved and numbered and the
\* handler goes on into publish_confession.
submit_confession_to_db(u) ==
    /\ next_id <= MaxConf
    /\ handler[u].pc = "idle"
    /\ GLOBAL_AUTO_APPROVE => Cardinality(InFlight) < MaxInFlight
    /\ LET doc == NewDoc(u) IN
        /\ conf_col' = Insert(next_id, doc)
        /\ top_number' = Logged(None, doc.number)
        /\ handler' = IF GLOBAL_AUTO_APPROVE
                      THEN [handler EXCEPT ![u] = Sending(next_id, doc.number, "auto")]
                      ELSE handler
    /\ next_id' = next_id + 1
    /\ UNCHANGED <<karma_col, GLOBAL_AUTO_APPROVE, channel, alerts, mod_ok>>

\* ------------------------------------------------------------- moderation
\* cb_admin_actions, ok: branch up to the first await inside
\* publish_confession (the channel send).
cb_admin_ok(u, c) ==
    /\ handler[u].pc = "idle"
    /\ c \in 1..(next_id - 1)
    /\ IF u \notin ADMIN_IDS \/ c \notin DOMAIN conf_col \/ conf_col[c].approved
       THEN UNCHANGED <<handler, mod_ok>>
       ELSE /\ Cardinality(InFlight) < MaxInFlight
            /\ mod_ok[c] < MaxClicks
            /\ handler' = [handler EXCEPT ![u] =
                            Sending(c, final_number_of(conf_col[c]), "admin")]
            /\ mod_ok' = Bump(mod_ok, c)
    /\ UNCHANGED <<conf_col, karma_col, GLOBAL_AUTO_APPROVE, next_id, channel, alerts,
                   top_number>>

\* the update_one written with upsert=True: a deleted document comes back
Published_upsert(c, n, msg_id) ==
    IF c \in DOMAIN conf_col
    THEN [conf_col EXCEPT ![c].approved = TRUE, ![c].number = n,
                          ![c].channel_message_id = msg_id]
    ELSE Insert(c, [NewDoc(CHOOSE u \in Users : TRUE) EXCEPT
                        !.approved = TRUE, !.number = n, !.channel_message_id = msg_id])

\* the update_one of publish_confession (src/bot.py:2184): a no-op when the
\* document is gone
Published(c, n, msg_id) ==
    IF c \in DOMAIN conf_col
    THEN [conf_col EXCEPT ![c].approved = TRUE, ![c].number = n,
                          ![c].channel_message_id = msg_id]
    ELSE conf_col

\* publish_confession: the channel send returned a message
publish_sent(u) ==
    /\ handler[u].pc = "send"
    /\ LET h == handler[u] IN
        /\ channel' = [channel EXCEPT ![h.conf] = Append(@, h.final_number)]
        /\ conf_col' = Published(h.conf, h.final_number, Posts(h.conf) + 1)
        /\ top_number' = IF h.conf \in DOMAIN conf_col
                         THEN Logged(conf_col[h.conf].number, h.final_number)
                         ELSE top_number
    /\ handler' = [handler EXCEPT ![u] = Idle]
    /\ UNCHANGED <<karma_col, GLOBAL_AUTO_APPROVE, next_id, alerts, mod_ok>>

\* publish_confession: the channel send raised.  "config" is a
\* TelegramBadRequest/TelegramForbiddenError naming a missing chat or missing
\* admin rights (alert, give up at once); anything else is retried until the
\* third attempt, then alerted.
publish_failed(u, kind) ==
    /\ handler[u].pc = "send"
    /\ LET h == handler[u] IN
        IF kind = "config" \/ h.attempt >= max_attempts - 1
        THEN /\ alerts' = alerts \cup {h.conf}
             /\ handler' = [handler EXCEPT ![u] = Idle]
        ELSE /\ handler' = [handler EXCEPT ![u].attempt = @ + 1]
             /\ UNCHANGED alerts
    /\ UNCHANGED <<conf_col, karma_col, GLOBAL_AUTO_APPROVE, next_id, channel, top_number,
                   mod_ok>>

\* a reject that tests only ``not doc'': an Approved confession is deleted
cb_admin_no_deletes_approved(u, c) ==
    /\ c \in 1..(next_id - 1)
    /\ IF u \notin ADMIN_IDS \/ c \notin DOMAIN conf_col
       THEN UNCHANGED <<conf_col, mod_ok>>
       ELSE /\ conf_col' = Delete(c)
            /\ mod_ok' = Bump(mod_ok, c)
    /\ UNCHANGED <<karma_col, GLOBAL_AUTO_APPROVE, next_id, handler, channel, alerts,
                   top_number>>

\* a reject without the ADMIN_IDS test
cb_admin_no_by_anybody(u, c) ==
    /\ c \in 1..(next_id - 1)
    /\ IF c \notin DOMAIN conf_col \/ conf_col[c].approved
       THEN UNCHANGED <<conf_col, mod_ok>>
       ELSE /\ conf_col' = Delete(c)
            /\ mod_ok' = Bump(mod_ok, c)
    /\ UNCHANGED <<karma_col, GLOBAL_AUTO_APPROVE, next_id, handler, channel, alerts,
                   top_number>>

\* cb_admin_actions, no: branch (no await between the read and the delete)
cb_admin_no(u, c) ==
    /\ c \in 1..(next_id - 1)
    /\ IF u \notin ADMIN_IDS \/ c \notin DOMAIN conf_col \/ conf_col[c].approved
       THEN UNCHANGED <<conf_col, mod_ok>>
       ELSE /\ conf_col' = Delete(c)
            /\ mod_ok' = Bump(mod_ok, c)
    /\ UNCHANGED <<karma_col, GLOBAL_AUTO_APPROVE, next_id, handler, channel, alerts,
                   top_number>>

\* cmd_reset_numbering: every document's number becomes null
cmd_reset_numbering(u) ==
    /\ conf_col' = IF u \in ADMIN_IDS
                   THEN [c \in DOMAIN conf_col |-> [conf_col[c] EXCEPT !.number = None]]
                   ELSE conf_col
    /\ UNCHANGED <<karma_col, GLOBAL_AUTO_APPROVE, next_id, handler, channel, alerts,
                   top_number, mod_ok>>

\* cmd_toggle_auto_approve
cmd_toggle_auto_approve(u) ==
    /\ GLOBAL_AUTO_APPROVE' = IF u \in ADMIN_IDS THEN ~GLOBAL_AUTO_APPROVE
                              ELSE GLOBAL_AUTO_APPROVE
    /\ UNCHANGED <<conf_col, karma_col, next_id, handler, channel, alerts, top_number,
                   mod_ok>>

\* ------------------------------------------------------------ vote ledger
\* ``voters.get(str_user_id, 0)''
current_vote_of(voters, u) == IF u \in DOMAIN voters THEN voters[u] ELSE 0

vote_value_of(vote_type) == IF vote_type = "like" THEN 1 ELSE 0 - 1

\* ``voters[str_user_id] = vote_value'' and ``del voters[str_user_id]''
SetVoter(voters, u, v) == [x \in DOMAIN voters \cup {u} |-> IF x = u THEN v ELSE voters[x]]
DelVoter(voters, u) == [x \in DOMAIN voters \ {u} |-> voters[x]]

\* a revoke that leaves the voter's entry in the map
voters_after_keeps_entry(voters, u, vote_value) == SetVoter(voters, u, vote_value)

\* the three branches shared by cb_handle_vote (src/bot.py:2585) and
\* cb_handle_comment_vote (src/bot.py:2456)
voters_after(voters, u, vote_value) ==
    IF current_vote_of(voters, u) = vote_value
    THEN DelVoter(voters, u)
    ELSE SetVoter(voters, u, vote_value)

\* a revoke that does not take the karma back
karma_change_no_refund(current_vote, vote_value) ==
    IF current_vote = 0 THEN vote_value
    ELSE IF current_vote = vote_value THEN 0
    ELSE vote_value - current_vote

\* a switch that moves the karma by one
karma_change_switch_by_one(current_vote, vote_value) ==
    IF current_vote = 0 THEN vote_value
    ELSE IF current_vote = vote_value THEN 0 - current_vote
    ELSE vote_value

karma_change_of(current_vote, vote_value) ==
    IF current_vote = 0 THEN vote_value
    ELSE IF current_vote = vote_value THEN 0 - current_vote
    ELSE vote_value - current_vote

likes_after(likes, current_vote, vote_type) ==
    IF current_vote = 0 THEN (IF vote_type = "like" THEN likes + 1 ELSE likes)
    ELSE IF current_vote = vote_value_of(vote_type)
         THEN (IF vote_type = "like" THEN likes - 1 ELSE likes)
         ELSE (IF current_vote = 1 THEN likes - 1 ELSE likes)
              + (IF vote_type = "like" THEN 1 ELSE 0)

dislikes_after(dislikes, current_vote, vote_type) ==
    IF current_vote = 0 THEN (IF vote_type = "like" THEN dislikes ELSE dislikes + 1)
    ELSE IF current_vote = vote_value_of(vote_type)
         THEN (IF vote_type = "like" THEN dislikes ELSE dislikes - 1)
         ELSE (IF current_vote = 1 THEN dislikes ELSE dislikes - 1)
              + (IF vote_type = "like" THEN 0 ELSE 1)

\* the karma booked on the voter
karma_recipient_voter(author, voter) == voter

\* karma_col.update_one({"_id": author}, {"$inc": {"karma": karma_change}}, upsert=True)
karma_recipient(author, voter) == author

karma_after(author, voter, karma_change) ==
    IF karma_change # 0
    THEN [karma_col EXCEPT ![karma_recipient(author, voter)] = @ + karma_change]
    ELSE karma_col

\* a handler without the own-confession check
vote_reply_no_self_check(u, c) ==
    IF c \notin DOMAIN conf_col \/ ~conf_col[c].approved THEN "NotFound" ELSE "ok"

\* what cb_handle_vote answers before it touches the store
vote_reply(u, c) ==
    IF c \notin DOMAIN conf_col \/ ~conf_col[c].approved THEN "NotFound"
    ELSE IF conf_col[c].user_id = u THEN "SelfVote"
    ELSE "ok"

\* what cb_handle_comment_vote answers before it touches the store
comment_vote_reply(u, c, i) ==
    IF c \notin DOMAIN conf_col \/ ~conf_col[c].approved THEN "NotFound"
    ELSE IF i < 0 \/ i >= Len(conf_col[c].comments) THEN "InvalidIndex"
    ELSE IF conf_col[c].comments[i + 1].user_id = u THEN "SelfVote"
    ELSE "ok"

\* a handler that reads the document before its await: it computes on the
\* counts and voters map it saw when the update was dispatched
vote_doc_read_at_dispatch(u, c) ==
    IF handler[u].pc = "vote" /\ handler[u].seen.ok
    THEN [conf_col[c] EXCEPT !.likes = handler[u].seen.likes,
                             !.dislikes = handler[u].seen.dislikes,
                             !.voters = handler[u].seen.voters]
    ELSE conf_col[c]

\* the document cb_handle_vote works on: read after the handler's only
\* await in front of the write (src/bot.py:2560)
vote_doc(u, c) == conf_col[c]

\* cb_handle_vote from the find_one to the karma update: no await in between
vote_body(u, c, vote_type) ==
    IF vote_reply(u, c) # "ok"
    THEN UNCHANGED <<conf_col, karma_col>>
    ELSE LET doc == vote_doc(u, c)
             cur == current_vote_of(doc.voters, u)
             val == vote_value_of(vote_type)
         IN /\ conf_col' = [conf_col EXCEPT
                    ![c].likes = likes_after(doc.likes, cur, vote_type),
                    ![c].dislikes = dislikes_after(doc.dislikes, cur, vote_type),
                    ![c].voters = voters_after(doc.voters, u, val)]
            /\ karma_col' = karma_after(doc.user_id, u, karma_change_of(cur, val))

\* the comment cb_handle_comment_vote works on (src/bot.py:2424, 2437)
comment_vote_doc(u, c, i) == conf_col[c].comments[i + 1]

\* a comment vote that writes the whole array element in place of its three
\* vote fields
comment_vote_body_rewrites_comment(u, c, i, vote_type) ==
    IF comment_vote_reply(u, c, i) # "ok"
    THEN UNCHANGED <<conf_col, karma_col>>
    ELSE LET comment == comment_vote_doc(u, c, i)
             cur == current_vote_of(comment.comment_voters, u)
             val == vote_value_of(vote_type)
         IN /\ conf_col' = [conf_col EXCEPT
                    ![c].comments[i + 1] =
                        [user_id |-> comment.user_id, parent_index |-> 0 - 1,
                         likes |-> likes_after(comment.likes, cur, vote_type),
                         dislikes |-> dislikes_after(comment.dislikes, cur, vote_type),
                         comment_voters |->
                            voters_after(comment.comment_voters, u, val)]]
            /\ karma_col' = karma_after(comment.user_id, u, karma_change_of(cur, val))

\* cb_handle_comment_vote from the find_one to the karma update
comment_vote_body(u, c, i, vote_type) ==
    IF comment_vote_reply(u, c, i) # "ok"
    THEN UNCHANGED <<conf_col, karma_col>>
    ELSE LET comment == comment_vote_doc(u, c, i)
             cur == current_vote_of(comment.comment_voters, u)
             val == vote_value_of(vote_type)
         IN /\ conf_col' = [conf_col EXCEPT
                    ![c].comments[i + 1].likes = likes_after(comment.likes, cur, vote_type),
                    ![c].comments[i + 1].dislikes =
                        dislikes_after(comment.dislikes, cur, vote_type),
                    ![c].comments[i + 1].comment_voters =
                        voters_after(comment.comment_voters, u, val)]
            /\ karma_col' = karma_after(comment.user_id, u, karma_change_of(cur, val))

Frame == UNCHANGED <<GLOBAL_AUTO_APPROVE, next_id, handler, channel, alerts, top_number,
                     mod_ok>>

\* cb_handle_vote: a like/dislike button of the channel post
cb_handle_vote(u, c, vote_type) ==
    /\ c \in 1..(next_id - 1)
    /\ vote_body(u, c, vote_type)
    /\ Frame

\* cb_handle_comment_vote: a like/dislike button under comment i
cb_handle_comment_vote(u, c, i, vote_type) ==
    /\ c \in 1..(next_id - 1)
    /\ comment_vote_body(u, c, i, vote_type)
    /\ Frame

\* the comment handle_comment_submission builds (src/bot.py:2352)
new_comment(u, parent_index) ==
    [user_id |-> u, likes |-> 0, dislikes |-> 0, comment_voters |-> <<>>,
     parent_index |-> parent_index]

\* handle_comment_submission: the $push on an approved confession; the
\* parent index is the one the reply button carried
handle_comment_submission(u, c, parent_index) ==
    /\ c \in 1..(next_id - 1)
    /\ IF c \in DOMAIN conf_col /\ conf_col[c].approved
       THEN /\ Len(conf_col[c].comments) < MaxComments
            /\ parent_index < Len(conf_col[c].comments)
            /\ conf_col' = [conf_col EXCEPT
                    ![c].comments = Append(@, new_comment(u, parent_index))]
       ELSE UNCHANGED conf_col
    /\ UNCHANGED karma_col
    /\ Frame

\* ------------------------------------------------------------------- specs
Next ==
    \/ \E u \in Users : submit_confession_to_db(u) /\ UNCHANGED <<last, dialogue>>
    \/ \E u \in Users, c \in ConfIds : cb_admin_ok(u, c) /\ UNCHANGED <<last, dialogue>>
    \/ \E u \in Users : publish_sent(u) /\ UNCHANGED <<last, dialogue>>
    \/ \E u \in Users, kind \in {"config", "other"} : publish_failed(u, kind) /\ UNCHANGED <<last, dialogue>>
    \/ \E u \in Users, c \in ConfIds : cb_admin_no(u, c) /\ UNCHANGED <<last, dialogue>>
    \/ \E u \in Users : cmd_reset_numbering(u) /\ UNCHANGED <<last, dialogue>>
    \/ \E u \in Users : cmd_toggle_auto_approve(u) /\ UNCHANGED <<last, dialogue>>

Spec == Init /\ [][Next]_vars

VoteTypes == {"like", "dislike"}
CommentIdx == 0..(MaxComments - 1)

\* ---------------------------------------------------------- cast history
\* What the ledger held for a target just before a cast.
TargetStateIn(store, karma, kind, c, i) ==
    IF kind = "conf"
    THEN [likes |-> store[c].likes, dislikes |-> store[c].dislikes,
          voters |-> store[c].voters, karma |-> karma]
    ELSE [likes |-> store[c].comments[i + 1].likes,
          dislikes |-> store[c].comments[i + 1].dislikes,
          voters |-> store[c].comments[i + 1].comment_voters,
          karma |-> karma]

TargetState(kind, c, i) == TargetStateIn(conf_col, karma_col, kind, c, i)

TargetAuthor(kind, c, i) ==
    IF kind = "conf" THEN conf_col[c].user_id ELSE conf_col[c].comments[i + 1].user_id

Votable(kind, c, i) ==
    /\ c \in DOMAIN conf_col
    /\ conf_col[c].approved
    /\ kind = "comment" => (i >= 0 /\ i < Len(conf_col[c].comments))

\* The history record after a cast by u on a target: the second of two equal
\* casts in a row keeps the record of the first (prior vote and state before
\* it) and sets rep.
Recorded(kind, c, i, u, vote_type, reply) ==
    IF ~Votable(kind, c, i) THEN NoCast
    ELSE IF /\ last.kind = kind /\ last.conf = c /\ last.idx = i /\ last.voter = u
            /\ last.vote = vote_value_of(vote_type) /\ ~last.rep /\ ~last.self
         THEN [last EXCEPT !.rep = TRUE, !.reply = reply]
         ELSE [kind |-> kind, conf |-> c, idx |-> i, voter |-> u,
               vote |-> vote_value_of(vote_type),
               self |-> (TargetAuthor(kind, c, i) = u),
               author |-> TargetAuthor(kind, c, i),
               reply |-> reply,
               prior |-> current_vote_of(TargetState(kind, c, i).voters, u),
               base |-> TargetState(kind, c, i),
               rep |-> FALSE]

\* ------------------------------------------------- vote handlers in flight
\* What a target held when a vote update was dispatched.
Seen(kind, c, i) ==
    IF Votable(kind, c, i)
    THEN [ok |-> TRUE, likes |-> TargetState(kind, c, i).likes,
          dislikes |-> TargetState(kind, c, i).dislikes,
          voters |-> TargetState(kind, c, i).voters]
    ELSE Unseen

FrameInFlight == UNCHANGED <<GLOBAL_AUTO_APPROVE, next_id, channel, alerts, top_number,
                             mod_ok>>

\* cb_handle_vote / cb_handle_comment_vote up to ``await callback.answer()'':
\* the handler task exists, nothing is read yet
vote_dispatch(u, kind, c, i, vote_type) ==
    /\ handler[u].pc = "idle"
    /\ Cardinality(InFlight) < MaxInFlight
    /\ c \in 1..(next_id - 1)
    /\ kind = "conf" => i = 0 - 1
    /\ kind = "comment" => i >= 0
    /\ handler' = [handler EXCEPT ![u] =
            [Idle EXCEPT !.pc = "vote", !.kind = kind, !.conf = c, !.idx = i,
                         !.vote_type = vote_type, !.seen = Seen(kind, c, i)]]
    /\ UNCHANGED <<conf_col, karma_col>>
    /\ FrameInFlight

\* the rest of the handler, from the find_one on
vote_resume(u) ==
    /\ handler[u].pc = "vote"
    /\ IF handler[u].kind = "conf"
       THEN vote_body(u, handler[u].conf, handler[u].vote_type)
       ELSE comment_vote_body(u, handler[u].conf, handler[u].idx, handler[u].vote_type)
    /\ handler' = [handler EXCEPT ![u] = Idle]
    /\ FrameInFlight

\* history of a resume: whether the target changed while the handler waited
Raced(u) ==
    LET h == handler[u] IN
    IF Votable(h.kind, h.conf, h.idx) /\ TargetAuthor(h.kind, h.conf, h.idx) # u
    THEN [kind |-> "race", rep |-> FALSE, self |-> FALSE, target |-> h.kind,
          stale |-> (h.seen # Seen(h.kind, h.conf, h.idx))]
    ELSE NoCast

NextRace ==
    \/ \E u \in Users :
            next_id <= MaxThreads /\ submit_confession_to_db(u) /\ UNCHANGED dialogue /\ last' = NoCast
    \/ \E u \in Users, c \in ConfIds : cb_admin_ok(u, c) /\ UNCHANGED dialogue /\ last' = NoCast
    \/ \E u \in Users : publish_sent(u) /\ UNCHANGED dialogue /\ last' = NoCast
    \/ \E u \in Users, c \in ConfIds : cb_admin_no(u, c) /\ UNCHANGED dialogue /\ last' = NoCast
    \/ \E u \in Users, c \in ConfIds, p \in (0 - 1)..(MaxComments - 1) :
            handle_comment_submission(u, c, p) /\ UNCHANGED dialogue /\ last' = NoCast
    \/ \E u \in Users, c \in ConfIds, t \in VoteTypes :
            vote_dispatch(u, "conf", c, 0 - 1, t) /\ UNCHANGED dialogue /\ last' = NoCast
    \/ \E u \in Users, c \in ConfIds, i \in CommentIdx, t \in VoteTypes :
            vote_dispatch(u, "comment", c, i, t) /\ UNCHANGED dialogue /\ last' = NoCast
    \/ \E u \in Users : vote_resume(u) /\ UNCHANGED dialogue /\ last' = Raced(u)

SpecRace == Init /\ [][NextRace]_vars

\* The ledger on one confession thread: moderation of it, votes, comments
\* and comment votes, with the cast history kept.
NextLedger ==
    \/ \E u \in Users :
            next_id <= MaxThreads /\ submit_confession_to_db(u) /\ UNCHANGED dialogue /\ last' = NoCast
    \/ \E u \in Users, c \in ConfIds : cb_admin_ok(u, c) /\ UNCHANGED dialogue /\ last' = NoCast
    \/ \E u \in Users : publish_sent(u) /\ UNCHANGED dialogue /\ last' = NoCast
    \/ \E u \in Users, kind \in {"config", "other"} :
            publish_failed(u, kind) /\ UNCHANGED dialogue /\ last' = NoCast
    \/ \E u \in Users, c \in ConfIds : cb_admin_no(u, c) /\ UNCHANGED dialogue /\ last' = NoCast
    \/ \E u \in Users, c \in ConfIds, t \in VoteTypes :
            /\ cb_handle_vote(u, c, t)
            /\ UNCHANGED dialogue /\ last' = Recorded("conf", c, 0 - 1, u, t, vote_reply(u, c))
    \/ \E u \in Users, c \in ConfIds, i \in CommentIdx, t \in VoteTypes :
            /\ cb_handle_comment_vote(u, c, i, t)
            /\ UNCHANGED dialogue /\ last' = Recorded("comment", c, i, u, t, comment_vote_reply(u, c, i))
    \/ \E u \in Users, c \in ConfIds, p \in (0 - 1)..(MaxComments - 1) :
            handle_comment_submission(u, c, p) /\ UNCHANGED dialogue /\ last' = NoCast

SpecLedger == Init /\ [][NextLedger]_vars


\* ------------------------------------------------------------------ claims
Approving(c) ==
    {u \in Users : handler[u].pc = "send" /\ handler[u].by = "admin" /\ handler[u].conf = c}

Issued == 1..(next_id - 1)

\* C1: of the moderator actions issued on one Pending confession only one
\* gets past the Pending guard: never two approvals of it in progress at
\* once, never a rejection (deletion) of a confession whose approval is in
\* progress or whose post is on the channel, never a second channel post.
C1_OneModeratorActionWins ==
    \A c \in Issued :
        /\ Cardinality(Approving(c)) <= 1
        /\ Posts(c) <= 1
        /\ c \notin DOMAIN conf_col => (Approving(c) = {} /\ Posts(c) = 0)

\* C2: every number newly given to a confession is higher than every number
\* given before, whatever submissions, approvals, rejections and
\* reset_numbering commands came in between.
C2_NumbersStrictlyIncrease ==
    [][\A c \in DOMAIN conf_col' :
          (/\ conf_col'[c].number # None
           /\ (c \notin DOMAIN conf_col \/ conf_col[c].number # conf_col'[c].number))
          => conf_col'[c].number > top_number
      ]_vars

\* C3: no two stored Approved confessions share a non-null number.
C3_DistinctNumbers ==
    \A c, d \in DOMAIN conf_col :
        (/\ c # d
         /\ conf_col[c].approved /\ conf_col[d].approved
         /\ conf_col[c].number # None)
        => conf_col[c].number # conf_col[d].number

\* C4: when an admin's approval ends without a channel post (every publish
\* attempt failed), an operator alert has been raised and the confession, if
\* still stored, is Approved with its number assigned.
C4_ApprovalSurvivesPublishFailure ==
    [][\A u \in Users :
          (/\ handler[u].pc = "send"
           /\ handler[u].by = "admin"
           /\ handler'[u].pc = "idle"
           /\ channel' = channel)
          => /\ handler[u].conf \in alerts'
             /\ handler[u].conf \in DOMAIN conf_col' =>
                    /\ conf_col'[handler[u].conf].approved
                    /\ conf_col'[handler[u].conf].number # None
      ]_vars

Likers(voters) == {x \in DOMAIN voters : voters[x] = 1}
Dislikers(voters) == {x \in DOMAIN voters : voters[x] = 0 - 1}

Tally(likes, dislikes, voters) ==
    /\ likes = Cardinality(Likers(voters))
    /\ dislikes = Cardinality(Dislikers(voters))
    /\ \A x \in DOMAIN voters : voters[x] \in {1, 0 - 1}
    /\ likes >= 0
    /\ dislikes >= 0

\* C5: for every stored confession and every comment, likes is the number of
\* voters recorded with +1, dislikes the number recorded with -1, every
\* recorded vote is +1 or -1, and both counts are non-negative.
C5_CountsMatchVoters ==
    \A c \in DOMAIN conf_col :
        /\ Tally(conf_col[c].likes, conf_col[c].dislikes, conf_col[c].voters)
        /\ \A k \in 1..Len(conf_col[c].comments) :
              Tally(conf_col[c].comments[k].likes, conf_col[c].comments[k].dislikes,
                    conf_col[c].comments[k].comment_voters)

\* a confession holding a like and a dislike whose comment holds a vote too,
\* after a revoke or switch on the confession (the last cast found a prior vote)
C5_Witness ==
    /\ last.kind = "conf"
    /\ last.prior # 0
    /\ \E c \in DOMAIN conf_col :
        /\ conf_col[c].likes = 1
        /\ conf_col[c].dislikes = 1
        /\ Len(conf_col[c].comments) >= 1
        /\ conf_col[c].comments[1].dislikes >= 1

\* the entry a voter holds after casting val over a recorded prior (0 = none)
EntryAfter(prior, val) == IF prior = val THEN 0 ELSE val

Restored(l) == TargetState(l.kind, l.conf, l.idx) = l.base

\* C7 as stated: two equal casts in a row by a voter who is not the author
\* bring likes, dislikes, voters and karma back to what they were before the
\* first cast, whatever the voter had recorded before.
C7_Original == last.rep => Restored(last)

\* C7 as amended: two equal casts x in a row restore the target and the karma
\* when the voter's recorded vote before the first cast was none or x; when
\* it was the opposite vote the pair is a switch and a revoke: the voter ends
\* with no recorded vote, the opposite bucket is one lower, x's bucket and
\* the other voters' entries are as before, and the author's karma is higher
\* by sign(x).
C7_RevokeLaw ==
    last.rep =>
        LET now == TargetState(last.kind, last.conf, last.idx)
            x == last.vote
        IN /\ last.prior \in {0, x} => Restored(last)
           /\ last.prior = 0 - x =>
                /\ current_vote_of(now.voters, last.voter) = 0
                /\ \A w \in Users \ {last.voter} :
                      current_vote_of(now.voters, w) = current_vote_of(last.base.voters, w)
                /\ now.likes = last.base.likes - (IF x = 0 - 1 THEN 1 ELSE 0)
                /\ now.dislikes = last.base.dislikes - (IF x = 1 THEN 1 ELSE 0)
                /\ now.karma = [last.base.karma EXCEPT ![last.author] = @ + x]

\* like, like on a confession by a voter with no recorded vote
C7_Witness ==
    /\ last.rep
    /\ last.kind = "conf"
    /\ last.prior = 0
    /\ last.base.likes + last.base.dislikes > 0

\* C8: a cast over the opposite recorded vote moves one vote from the old
\* bucket to the new one, records the new vote and moves the author's karma
\* by 2 in the direction of the new vote; a first cast adds one to its bucket
\* and sign(vote) to the author's karma.  Nobody else's karma moves.
C8_SwitchAndCast ==
    (last.kind # "none" /\ ~last.rep /\ ~last.self) =>
        LET now == TargetState(last.kind, last.conf, last.idx)
            x == last.vote
            up == IF x = 1 THEN 1 ELSE 0
            down == IF x = 1 THEN 0 ELSE 1
        IN /\ last.prior = 0 - x =>
                /\ now.likes = last.base.likes + up - down
                /\ now.dislikes = last.base.dislikes + down - up
                /\ current_vote_of(now.voters, last.voter) = x
                /\ now.karma = [last.base.karma EXCEPT ![last.author] = @ + 2 * x]
           /\ last.prior = 0 =>
                /\ now.likes = last.base.likes + up
                /\ now.dislikes = last.base.dislikes + down
                /\ current_vote_of(now.voters, last.voter) = x
                /\ now.karma = [last.base.karma EXCEPT ![last.author] = @ + x]

\* dislike then like on a comment: the like has just switched the vote
C8_Witness ==
    /\ last.kind = "comment"
    /\ ~last.rep
    /\ last.prior = 0 - 1
    /\ last.vote = 1

\* C9: a cast by the target's author is answered SelfVote and leaves the
\* target's likes, dislikes and voters and every user's karma as they were.
C9_SelfVote ==
    (last.kind # "none" /\ last.self) =>
        /\ last.reply = "SelfVote"
        /\ Restored(last)

\* the author of a comment that already holds votes presses its like button
C9_Witness ==
    /\ last.kind = "comment"
    /\ last.self
    /\ last.base.likes + last.base.dislikes > 0

RECURSIVE CommentsScore(_, _)
CommentsScore(comments, u) ==
    IF comments = <<>> THEN 0
    ELSE (IF Head(comments).user_id = u
          THEN Head(comments).likes - Head(comments).dislikes ELSE 0)
         + CommentsScore(Tail(comments), u)

RECURSIVE StoreScore(_, _)
StoreScore(ids, u) ==
    IF ids = {} THEN 0
    ELSE LET c == CHOOSE x \in ids : TRUE
         IN (IF conf_col[c].user_id = u
             THEN conf_col[c].likes - conf_col[c].dislikes ELSE 0)
            + CommentsScore(conf_col[c].comments, u)
            + StoreScore(ids \ {c}, u)

\* C10: every user's karma is the sum of likes - dislikes over the
\* confessions and comments that user authored.
C10_KarmaIsAuthoredScore ==
    \A u \in Users : karma_col[u] = StoreScore(DOMAIN conf_col, u)

\* a user who authored a confession and a comment on it, both voted on,
\* while a voter's karma is still 0
C10_Witness ==
    \E u \in Users, c \in DOMAIN conf_col :
        /\ conf_col[c].user_id = u
        /\ conf_col[c].likes = 2
        /\ Len(conf_col[c].comments) >= 1
        /\ conf_col[c].comments[1].user_id = u
        /\ conf_col[c].comments[1].dislikes = 1
        /\ karma_col[u] = 1
        /\ \E w \in DOMAIN conf_col[c].voters : karma_col[w] = 0

\* C6: a vote handler that resumes while other voters' casts have landed on
\* the same target since it was dispatched still applies only its own delta:
\* every other voter's entry is kept, the voter's entry follows from the vote
\* stored for that voter at the write, and counts and the author's karma move
\* by exactly that change.
C6_NoLostUpdate ==
    [][\A u \in Users :
          (/\ handler[u].pc = "vote"
           /\ handler'[u].pc = "idle"
           /\ Votable(handler[u].kind, handler[u].conf, handler[u].idx)
           /\ TargetAuthor(handler[u].kind, handler[u].conf, handler[u].idx) # u)
          => LET h == handler[u]
                 before == TargetState(h.kind, h.conf, h.idx)
                 after == TargetStateIn(conf_col', karma_col', h.kind, h.conf, h.idx)
                 val == IF h.vote_type = "like" THEN 1 ELSE 0 - 1
                 prior == current_vote_of(before.voters, u)
                 new == EntryAfter(prior, val)
             IN /\ \A w \in Users \ {u} :
                      current_vote_of(after.voters, w) = current_vote_of(before.voters, w)
                /\ current_vote_of(after.voters, u) = new
                /\ after.likes = before.likes + (IF new = 1 THEN 1 ELSE 0)
                                              - (IF prior = 1 THEN 1 ELSE 0)
                /\ after.dislikes = before.dislikes + (IF new = 0 - 1 THEN 1 ELSE 0)
                                                    - (IF prior = 0 - 1 THEN 1 ELSE 0)
                /\ after.karma =
                      [before.karma EXCEPT ![TargetAuthor(h.kind, h.conf, h.idx)] =
                            @ + new - prior]
      ]_vars

\* a handler has just written to a confession that another voter changed
\* while it was waiting, and both voters' entries are in the map
C6_Witness ==
    /\ last.kind = "race"
    /\ last.stale
    /\ last.target = "conf"
    /\ \E c \in DOMAIN conf_col :
        /\ Cardinality(DOMAIN conf_col[c].voters) = 2
        /\ conf_col[c].comments = <<>>
        /\ karma_col[conf_col[c].user_id] = conf_col[c].likes - conf_col[c].dislikes
        /\ karma_col[conf_col[c].user_id] # 0

\* ------------------------------------------------ moderator clicks, recorded
\* What a click on an admin button met and did: whether the confession was
\* Pending when cb_admin_actions read it, and whether the click wrote to the
\* store, sent to the channel, raised an alert or started a publish.
Clicked(u, c, action) ==
    [kind |-> "click", rep |-> FALSE, self |-> FALSE,
     action |-> action,
     admin |-> (u \in ADMIN_IDS),
     stored |-> (c \in DOMAIN conf_col),
     pending |-> (c \in DOMAIN conf_col /\ ~conf_col[c].approved),
     changed |-> (<<conf_col, channel, handler, alerts, next_id>>' #
                  <<conf_col, channel, handler, alerts, next_id>>)]

NextClicks ==
    \/ \E u \in Users : submit_confession_to_db(u) /\ UNCHANGED dialogue /\ last' = NoCast
    \/ \E u \in Users, c \in ConfIds : cb_admin_ok(u, c) /\ UNCHANGED dialogue /\ last' = Clicked(u, c, "ok")
    \/ \E u \in Users : publish_sent(u) /\ UNCHANGED dialogue /\ last' = NoCast
    \/ \E u \in Users, kind \in {"config", "other"} : publish_failed(u, kind) /\ UNCHANGED dialogue /\ last' = NoCast
    \/ \E u \in Users, c \in ConfIds : cb_admin_no(u, c) /\ UNCHANGED dialogue /\ last' = Clicked(u, c, "no")
    \/ \E u \in Users : cmd_reset_numbering(u) /\ UNCHANGED dialogue /\ last' = NoCast
    \/ \E u \in Users : cmd_toggle_auto_approve(u) /\ UNCHANGED dialogue /\ last' = NoCast

SpecClicks == Init /\ [][NextClicks]_vars

\* C11: an approve or a reject click on a confession that is not Pending
\* (stored Approved, or rejected and deleted) changes nothing: no write to
\* the store, no deletion, no channel post, no publish started.
C11_NotPendingClickIsInert ==
    (last.kind = "click" /\ ~last.pending) => ~last.changed

\* an admin's reject click on an Approved confession, and an admin's approve
\* click on a deleted one
C11_Witness ==
    /\ last.kind = "click"
    /\ last.admin
    /\ ~last.pending
    /\ \/ last.action = "no" /\ last.stored
       \/ last.action = "ok" /\ ~last.stored
    /\ \E c \in DOMAIN conf_col : conf_col[c].approved /\ conf_col[c].channel_message_id # None

\* ------------------------------------------------------- status and number
\* C12: status only moves forward.  A confession stored Approved is still
\* stored and Approved after every step, and the id of a confession that was
\* rejected (deleted) is not in the store after any later step.
C12_StatusMovesForward ==
    [][\A c \in Issued :
          /\ (c \in DOMAIN conf_col /\ conf_col[c].approved)
                => (c \in DOMAIN conf_col' /\ conf_col'[c].approved)
          /\ c \notin DOMAIN conf_col => c \notin DOMAIN conf_col'
      ]_vars

\* one confession Approved and posted, another rejected while its approval
\* was in flight: its post went out and the update found no document
C12_Witness ==
    \E c, d \in Issued :
        /\ c \in DOMAIN conf_col /\ conf_col[c].approved /\ Posts(c) >= 1
        /\ d \notin DOMAIN conf_col /\ Posts(d) >= 1
        /\ Approving(d) = {}

\* C13: a confession's number is set at most once.  A stored confession that
\* holds a number holds the same number after every step.
C13_NumberSetOnce ==
    [][\A c \in DOMAIN conf_col :
          (conf_col[c].number # None /\ c \in DOMAIN conf_col')
              => conf_col'[c].number = conf_col[c].number
      ]_vars

\* C13 with the reset_numbering command left aside: also then a stored number
\* is overwritten, by the second of two overlapping approvals
C13_NumberSetOnceBarReset ==
    [][(\A c \in DOMAIN conf_col :
          (conf_col[c].number # None /\ c \in DOMAIN conf_col')
              => conf_col'[c].number = conf_col[c].number)
       \/ (\E u \in ADMIN_IDS : cmd_reset_numbering(u))
      ]_vars

Created == DOMAIN conf_col' \ DOMAIN conf_col

\* C14 as stated: every confession is created Pending with no number.
C14_Original ==
    [][\A c \in Created : ~conf_col'[c].approved /\ conf_col'[c].number = None]_vars

\* C14 as amended: a confession submitted while auto-approve is off is
\* created Pending with no number, and a Pending confession becomes Approved
\* or numbered only when an admin's approval of it completes; a confession
\* submitted while auto-approve is on is created Approved with its number
\* assigned and no published_ref yet.
C14_SubmitStatus ==
    [][/\ \A c \in Created :
             /\ conf_col'[c].approved = GLOBAL_AUTO_APPROVE
             /\ (conf_col'[c].number # None) = GLOBAL_AUTO_APPROVE
             /\ conf_col'[c].channel_message_id = None
       /\ \A c \in DOMAIN conf_col \cap DOMAIN conf_col' :
             (/\ ~conf_col[c].approved
              /\ conf_col'[c].approved \/ conf_col'[c].number # None)
             => \E u \in ADMIN_IDS :
                   /\ handler[u].pc = "send" /\ handler[u].by = "admin"
                   /\ handler[u].conf = c
                   /\ handler'[u].pc = "idle"
                   /\ conf_col'[c].approved
                   /\ conf_col'[c].number = handler[u].final_number
                   /\ conf_col'[c].number # None
      ]_vars

\* one confession created Pending and approved by an admin, one created
\* Approved and numbered under auto-approve, its publish still in flight
C14_Witness ==
    \E c, d \in DOMAIN conf_col, u \in Users :
        /\ conf_col[c].approved /\ conf_col[c].channel_message_id # None
        /\ mod_ok[c] = 1
        /\ conf_col[d].approved /\ conf_col[d].number # None
        /\ conf_col[d].channel_message_id = None
        /\ handler[u].pc = "send" /\ handler[u].by = "auto" /\ handler[u].conf = d

\* ------------------------------------------------------ submission dialogue
\* The /confess dialogue is three handlers over the user's FSMContext
\* (MemoryStorage: its calls do not suspend).  A handler runs without
\* interleaving up to its first Telegram call; what it does after that call
\* is a separate step, taken when the call returns.
Authors == {u \in Users : u <= MaxAuthors}

content == <<conf_col, karma_col, GLOBAL_AUTO_APPROVE, next_id, handler, channel, alerts,
           top_number, mod_ok>>

RECURSIVE Total(_, _)
Total(bag, kinds) ==
    IF kinds = {} THEN 0
    ELSE LET k == CHOOSE x \in kinds : TRUE IN bag[k] + Total(bag, kinds \ {k})
Suspended(u) == Total(tasks[u], TaskKinds)
Suspend(u, k) == [tasks EXCEPT ![u][k] = @ + 1]
Resume(u, k) == [tasks EXCEPT ![u][k] = @ - 1]

\* the clock
tick ==
    /\ clock < Epoch + MaxTicks * TickSeconds
    /\ clock' = clock + TickSeconds
    /\ UNCHANGED <<content, last_confession_time, fsm, tasks, conf_text, users_col, ANONYMOUS_ID_MAP>>

\* ``last_confession_time.get(user_id, 0)''
last_of(u) == IF u \in DOMAIN last_confession_time THEN last_confession_time[u] ELSE 0

\* ``int((CONFESSION_COOLDOWN - (clock - last)) // 60) + 1''
remain_of(t, l) == ((CONFESSION_COOLDOWN - (t - l)) \div 60) + 1

\* the reply of cmd_confess_start
confess_reply(u) ==
    IF clock - last_of(u) < CONFESSION_COOLDOWN
    THEN [kind |-> "confess", rep |-> FALSE, self |-> FALSE, user |-> u,
          reply |-> "RateLimited",
          remain |-> remain_of(clock, last_of(u)),
          wait |-> CONFESSION_COOLDOWN - (clock - last_of(u))]
    ELSE [kind |-> "confess", rep |-> FALSE, self |-> FALSE, user |-> u,
          reply |-> "ok", remain |-> 0, wait |-> 0]

\* cmd_confess_start up to ``await msg.answer'': the cooldown test, and
\* state.clear() when it passes
cmd_confess_start(u) ==
    /\ IF clock - last_of(u) < CONFESSION_COOLDOWN
       THEN UNCHANGED <<fsm, tasks>>
       ELSE /\ Suspended(u) < MaxTasks
            /\ fsm' = [fsm EXCEPT ![u] = NoData]
            /\ tasks' = Suspend(u, "confess")
    /\ UNCHANGED <<content, clock, last_confession_time, conf_text, users_col, ANONYMOUS_ID_MAP>>

\* cmd_confess_start after the answer was sent: set_state(waiting_for_text)
confess_resume(u) ==
    /\ tasks[u]["confess"] > 0
    /\ tasks' = Resume(u, "confess")
    /\ fsm' = [fsm EXCEPT ![u].state = "waiting_for_text"]
    /\ UNCHANGED <<content, clock, last_confession_time, conf_text, users_col, ANONYMOUS_ID_MAP>>

\* messages a user can send into the dialogue: plain text of a length with
\* so many leading/trailing blanks, a photo with a caption of a length (0: no
\* caption), a sticker, a command
Msg(kind, len, pad) == [kind |-> kind, len |-> len, pad |-> pad]
Messages ==
    {Msg("text", 5, 0), Msg("text", 9, 0), Msg("text", 10, 0), Msg("text", 12, 3),
     Msg("text", 4096, 0), Msg("photo", 0, 0), Msg("photo", 5, 0), Msg("photo", 20, 0),
     Msg("sticker", 0, 0), Msg("command", 7, 0)}

\* ``text = msg.caption or "(image confession)"'' / ``text = msg.text''
text_of(msg) == IF msg.kind = "photo" /\ msg.len = 0 THEN 18 ELSE msg.len
\* ``len(text.strip())''
stripped_of(msg) == text_of(msg) - msg.pad

\* handle_confession_text without the minimum-length test
text_verdict_no_minimum(msg) ==
    IF msg.kind = "command" THEN "cancelled"
    ELSE IF msg.kind \notin {"photo", "text"} THEN "invalid"
    ELSE IF text_of(msg) = 0 THEN "Validation"
    ELSE "ok"

\* what handle_confession_text answers
text_verdict(msg) ==
    IF msg.kind = "command" THEN "cancelled"
    ELSE IF msg.kind \notin {"photo", "text"} THEN "invalid"
    ELSE IF text_of(msg) = 0 \/ stripped_of(msg) < 10 THEN "Validation"
    ELSE "ok"

\* handle_confession_text up to its first Telegram call
handle_confession_text(u, msg) ==
    /\ fsm[u].state = "waiting_for_text"
    /\ CASE text_verdict(msg) = "cancelled" ->
                /\ Suspended(u) < MaxTasks
                /\ tasks' = Suspend(u, "cancel")
                /\ UNCHANGED fsm
         [] text_verdict(msg) = "ok" ->
                /\ Suspended(u) < MaxTasks
                /\ fsm' = [fsm EXCEPT ![u].has_draft = TRUE,
                                      ![u].text = text_of(msg),
                                      ![u].media = (msg.kind = "photo"),
                                      ![u].selected_tags = {}]
                /\ tasks' = Suspend(u, "text")
         [] OTHER -> UNCHANGED <<fsm, tasks>>
    /\ UNCHANGED <<content, clock, last_confession_time, conf_text, users_col, ANONYMOUS_ID_MAP>>

\* state.clear() after an answer was sent: ``Confession cancelled'', ``no
\* longer available'', and the finally block of handle_comment_submission
cancel_resume(u) ==
    /\ tasks[u]["cancel"] > 0
    /\ tasks' = Resume(u, "cancel")
    /\ fsm' = [fsm EXCEPT ![u] = NoData]
    /\ UNCHANGED <<content, clock, last_confession_time, conf_text, users_col, ANONYMOUS_ID_MAP>>

\* after the tag keyboard was sent: set_state(waiting_for_tags)
text_resume(u) ==
    /\ tasks[u]["text"] > 0
    /\ tasks' = Resume(u, "text")
    /\ fsm' = [fsm EXCEPT ![u].state = "waiting_for_tags"]
    /\ UNCHANGED <<content, clock, last_confession_time, conf_text, users_col, ANONYMOUS_ID_MAP>>

\* handle_tag_selection is dispatched on the state filter and suspends at
\* ``await callback.answer()''
tag_dispatch(u, a) ==
    /\ fsm[u].state = "waiting_for_tags"
    /\ Suspended(u) < MaxTasks
    /\ tasks' = Suspend(u, a)
    /\ UNCHANGED <<content, clock, last_confession_time, fsm, conf_text, users_col, ANONYMOUS_ID_MAP>>

\* ``last_confession_time[user_id] = time.time()''
Stamped(u) ==
    [x \in DOMAIN last_confession_time \cup {u} |->
        IF x = u THEN clock ELSE last_confession_time[x]]

\* ``selected_tags'' after a tag button: Auto adds Other, a tag toggles
tags_after(selected, a) ==
    IF a = "Auto" THEN selected \cup {"Other"}
    ELSE IF a \in selected THEN selected \ {a} ELSE selected \cup {a}

\* a Done button that submits the draft whether or not a tag is selected
handle_tag_selection_done_without_tags(u, a) ==
    /\ tasks[u][a] > 0
    /\ tasks' = Resume(u, a)
    /\ IF a = "Done"
       THEN IF fsm[u].has_draft
            THEN /\ submit_confession_to_db(u)
                 /\ conf_text' = [conf_text EXCEPT ![next_id] =
                                    [len |-> fsm[u].text, media |-> fsm[u].media]]
                 /\ last_confession_time' = Stamped(u)
                 /\ fsm' = [fsm EXCEPT ![u] = NoData]
            ELSE UNCHANGED <<content, last_confession_time, fsm, conf_text>>
       ELSE /\ fsm' = [fsm EXCEPT ![u].selected_tags = tags_after(@, a)]
            /\ UNCHANGED <<content, last_confession_time, conf_text>>
    /\ UNCHANGED <<clock, users_col, ANONYMOUS_ID_MAP>>

\* handle_tag_selection from ``state.get_data()'' on.  Done with tags and a
\* draft runs submit_confession_to_db: insert, cooldown stamp, state.clear().
\* Done on data without a draft dies on data["user_id"] (KeyError).
handle_tag_selection(u, a) ==
    /\ tasks[u][a] > 0
    /\ tasks' = Resume(u, a)
    /\ IF a = "Done"
       THEN IF fsm[u].selected_tags # {} /\ fsm[u].has_draft
            THEN /\ submit_confession_to_db(u)
                 /\ conf_text' = [conf_text EXCEPT ![next_id] =
                                    [len |-> fsm[u].text, media |-> fsm[u].media]]
                 /\ last_confession_time' = Stamped(u)
                 /\ fsm' = [fsm EXCEPT ![u] = NoData]
            ELSE UNCHANGED <<content, last_confession_time, fsm, conf_text>>
       ELSE /\ fsm' = [fsm EXCEPT ![u].selected_tags = tags_after(@, a)]
            /\ UNCHANGED <<content, last_confession_time, conf_text>>
    /\ UNCHANGED <<clock, users_col, ANONYMOUS_ID_MAP>>

\* what the user was answered by handle_confession_text, and whether the
\* message left any trace in the store, the cooldown table or the dialogue
text_reply(u, msg) ==
    [kind |-> "text", rep |-> FALSE, self |-> FALSE, user |-> u, msg |-> msg,
     reply |-> text_verdict(msg),
     changed |-> (<<content, dialogue>>' # <<content, dialogue>>)]

NextConfess ==
    \/ tick /\ last' = NoCast
    \/ \E u \in Authors : cmd_confess_start(u) /\ last' = confess_reply(u)
    \/ \E u \in Authors : confess_resume(u) /\ last' = NoCast
    \/ \E u \in Authors, msg \in Messages :
            handle_confession_text(u, msg) /\ last' = text_reply(u, msg)
    \/ \E u \in Authors : cancel_resume(u) /\ last' = NoCast
    \/ \E u \in Authors : text_resume(u) /\ last' = NoCast
    \/ \E u \in Authors, a \in TagActions : tag_dispatch(u, a) /\ last' = NoCast
    \/ \E u \in Authors, a \in TagActions : handle_tag_selection(u, a) /\ last' = NoCast

SpecConfess == Init /\ [][NextConfess]_vars

\* ---------------------------------------------------------------- C15
\* C15: a message of fewer than 10 characters with no photo is refused with
\* the validation answer, and it changes nothing: no confession is stored,
\* the cooldown table and the dialogue stay as they were; so no stored
\* confession without media has a text under 10 characters.
C15_ShortTextRefused ==
    /\ (last.kind = "text" /\ last.msg.kind = "text" /\ last.msg.len < 10)
            => (last.reply = "Validation" /\ ~last.changed)
    /\ \A c \in DOMAIN conf_col : conf_text[c].media \/ conf_text[c].len >= 10

\* the 5-character scenario, sent by an author in the dialogue while an
\* earlier confession of theirs is in the store
C15_Witness ==
    /\ last.kind = "text" /\ last.msg = Msg("text", 5, 0)
    /\ last.reply = "Validation"
    /\ fsm[last.user].state = "waiting_for_text"
    /\ \E c \in DOMAIN conf_col : conf_col[c].user_id = last.user

\* ---------------------------------------------------------------- C16
\* the submission maximum of the submit operation.  bot.py defines none for
\* confessions; the value is the limit it applies to comment text, below the
\* 4096 characters of the longest message Telegram delivers.
SubmissionMax == 4000

\* C16: a message whose text is longer than the submission maximum is refused
\* with the validation answer and changes nothing, so no stored confession has
\* a text above the maximum.
C16_LongTextRefused ==
    /\ (last.kind = "text" /\ last.msg.kind \in {"photo", "text"}
            /\ text_of(last.msg) > SubmissionMax)
            => (last.reply = "Validation" /\ ~last.changed)
    /\ \A c \in DOMAIN conf_col : conf_text[c].len <= SubmissionMax

\* ---------------------------------------------------------------- C17
\* C17: a confession is stored for an author only when CONFESSION_COOLDOWN
\* seconds have passed since that author's previous confession was stored.
C17_CooldownBetweenStores ==
    [][\A c \in Created :
          LET u == conf_col'[c].user_id IN
          u \in DOMAIN last_confession_time
              => clock - last_confession_time[u] >= CONFESSION_COOLDOWN]_vars

\* the part of C17 that holds: the refused /confess changes nothing
C17_RefusalIsInert ==
    [][\A u \in Authors :
          (clock - last_of(u) < CONFESSION_COOLDOWN /\ cmd_confess_start(u))
              => UNCHANGED <<content, dialogue>>]_vars

\* ---------------------------------------------------------------- C18
\* C18: the minutes reported by a /confess refused some time after the
\* author's previous submission are the true remaining wait in whole minutes,
\* rounded up: 240 seconds are reported as 4 minutes, 210 seconds as 4,
\* 270 seconds as 5.
C18_ReportedWaitMatches ==
    (last.kind = "confess" /\ last.reply = "RateLimited"
        /\ last.wait < CONFESSION_COOLDOWN)
        => /\ 60 * (last.remain - 1) < last.wait
           /\ last.wait <= 60 * last.remain

\* ------------------------------------------------------ comment dialogue
\* parent indexes a comment_start callback can carry: the buttons carry -1
\* or the index of a shown comment, any other client sends what it likes
ParentIndexes == (0 - 2)..1

\* ``comments[parent_index]'' raises IndexError
IndexError(comments, parent_index) ==
    parent_index >= Len(comments) \/ parent_index < 0 - Len(comments)

\* cb_comment_start with a find_one that does not ask for ``approved''
cb_comment_start_any_status(u, c, parent_index) ==
    /\ Suspended(u) < MaxTasks
    /\ IF c \in DOMAIN conf_col
       THEN /\ fsm' = [fsm EXCEPT ![u].target_conf_id = c,
                                  ![u].parent_index = parent_index,
                                  ![u].state = "waiting_for_submission"]
            /\ tasks' = IF parent_index # 0 - 1
                            /\ parent_index >= Len(conf_col[c].comments)
                        THEN Suspend(u, "fallback")
                        ELSE tasks
       ELSE /\ tasks' = Suspend(u, "cancel")
            /\ UNCHANGED fsm
    /\ UNCHANGED <<content, clock, last_confession_time, conf_text, users_col, ANONYMOUS_ID_MAP>>

\* cb_comment_start from the parse on (callback.answer comes first and reads
\* nothing).  The target and the parent index are stored and the state set
\* before the index is compared with the thread; the fallback to a top-level
\* comment is written after the answer that announces it.
cb_comment_start(u, c, parent_index) ==
    /\ Suspended(u) < MaxTasks
    /\ IF c \in DOMAIN conf_col /\ conf_col[c].approved
       THEN /\ fsm' = [fsm EXCEPT ![u].target_conf_id = c,
                                  ![u].parent_index = parent_index,
                                  ![u].state = "waiting_for_submission"]
            /\ tasks' = IF parent_index # 0 - 1
                            /\ parent_index >= Len(conf_col[c].comments)
                        THEN Suspend(u, "fallback")
                        ELSE tasks
       ELSE /\ tasks' = Suspend(u, "cancel")
            /\ UNCHANGED fsm
    /\ UNCHANGED <<content, clock, last_confession_time, conf_text, users_col, ANONYMOUS_ID_MAP>>

\* ``await state.update_data(parent_index=-1)''
fallback_resume(u) ==
    /\ tasks[u]["fallback"] > 0
    /\ tasks' = Resume(u, "fallback")
    /\ fsm' = [fsm EXCEPT ![u].parent_index = 0 - 1]
    /\ UNCHANGED <<content, clock, last_confession_time, conf_text, users_col, ANONYMOUS_ID_MAP>>

\* messages a user can send as a comment
CommentMessages ==
    {Msg("text", 5, 0), Msg("text", 4096, 0), Msg("sticker", 0, 0), Msg("photo", 0, 0)}

\* what handle_comment_submission does with a message, given the dialogue
\* data of its sender
comment_verdict(u, msg) ==
    LET c == fsm[u].target_conf_id
        parent_index == fsm[u].parent_index IN
    IF c = None THEN "failed"
    ELSE IF msg.kind \notin {"text", "sticker"} THEN "invalid"
    ELSE IF ~(c \in DOMAIN conf_col /\ conf_col[c].approved) THEN "unavailable"
    ELSE IF parent_index # 0 - 1 /\ parent_index < Len(conf_col[c].comments)
            /\ IndexError(conf_col[c].comments, parent_index) THEN "error"
    ELSE IF msg.kind = "text" /\ msg.len > 4000 THEN "too long"
    ELSE "pushed"

\* new_comment with the content of the message: text (stripped), or the
\* sticker
with_content(comment, msg) ==
    [f \in DOMAIN comment \cup {"payload"} |->
        IF f = "payload" THEN [kind |-> msg.kind, len |-> msg.len - msg.pad]
        ELSE comment[f]]

\* the element ``comments[parent_index]'' under Python indexing
parent_of(comments, parent_index) ==
    IF parent_index >= 0 THEN comments[parent_index + 1]
    ELSE comments[Len(comments) + parent_index + 1]

\* handle_comment_submission awaits send_notification in front of the push:
\* a reply to a comment of somebody else
notifies_parent(u) ==
    LET comments == conf_col[fsm[u].target_conf_id].comments
        parent_index == fsm[u].parent_index IN
    /\ parent_index # 0 - 1
    /\ parent_index < Len(comments)
    /\ parent_of(comments, parent_index).user_id # u

\* a read-modify-write in place of the push: the list that was read with
\* the document is written back with the comment added
push_comment_on_read_list(c, comment, read) ==
    IF c \in DOMAIN conf_col /\ conf_col[c].approved
    THEN [conf_col EXCEPT ![c].comments = Append(read, comment)]
    ELSE conf_col

\* ``conf_col.update_one({_id, approved: True}, {$push: {comments: ...}})'';
\* read is the list the handler read with the document, which the push does
\* not use
push_comment(c, comment, read) ==
    IF c \in DOMAIN conf_col /\ conf_col[c].approved
    THEN [conf_col EXCEPT ![c].comments = Append(@, comment)]
    ELSE conf_col

\* handle_comment_submission on the dialogue data, up to the Telegram call
\* that follows its verdict: the notification of the parent's author, which
\* comes before the push, or the answer that comes after it.  state.clear()
\* of the finally block comes after that call.
comment_submission(u, msg) ==
    /\ fsm[u].state = "waiting_for_submission"
    /\ IF comment_verdict(u, msg) = "pushed" /\ notifies_parent(u)
       THEN /\ handler[u].pc = "idle"
            /\ handler' = [handler EXCEPT ![u] =
                    [Idle EXCEPT !.pc = "notify", !.kind = "comment",
                                 !.conf = fsm[u].target_conf_id,
                                 !.idx = fsm[u].parent_index,
                                 !.seen = [ok |-> TRUE, msg |-> msg,
                                           comments |-> conf_col[fsm[u].target_conf_id].comments]]]
            /\ UNCHANGED <<conf_col, tasks>>
       ELSE /\ IF comment_verdict(u, msg) = "pushed"
               THEN /\ Len(conf_col[fsm[u].target_conf_id].comments) < MaxReplies
                    /\ conf_col' = push_comment(fsm[u].target_conf_id,
                            with_content(new_comment(u, fsm[u].parent_index), msg),
                            conf_col[fsm[u].target_conf_id].comments)
               ELSE UNCHANGED conf_col
            /\ IF comment_verdict(u, msg) = "invalid"
               THEN UNCHANGED tasks
               ELSE Suspended(u) < MaxTasks /\ tasks' = Suspend(u, "cancel")
            /\ UNCHANGED handler
    /\ UNCHANGED <<karma_col, GLOBAL_AUTO_APPROVE, next_id, channel, alerts,
                   top_number, mod_ok, clock, last_confession_time, fsm, conf_text, users_col, ANONYMOUS_ID_MAP>>

\* handle_comment_submission after send_notification returned, whether the
\* notification was delivered or not (send_notification catches every
\* exception and returns False): the push and the thread view
comment_push(u, delivered) ==
    /\ handler[u].pc = "notify"
    /\ Suspended(u) < MaxTasks
    /\ handler[u].conf \in DOMAIN conf_col
            => Len(conf_col[handler[u].conf].comments) < MaxReplies
    /\ conf_col' = push_comment(handler[u].conf,
            with_content(new_comment(u, handler[u].idx), handler[u].seen.msg),
            handler[u].seen.comments)
    /\ handler' = [handler EXCEPT ![u] = Idle]
    /\ tasks' = Suspend(u, "cancel")
    /\ UNCHANGED <<karma_col, GLOBAL_AUTO_APPROVE, next_id, channel, alerts,
                   top_number, mod_ok, clock, last_confession_time, fsm, conf_text, users_col, ANONYMOUS_ID_MAP>>

\* what cb_comment_start found under the confession id it was sent
comment_start_reply(u, c) ==
    [kind |-> "comment_start", rep |-> FALSE, self |-> FALSE, user |-> u, conf |-> c,
     status |-> IF c \notin DOMAIN conf_col
                THEN (IF c < next_id THEN "rejected" ELSE "nonexistent")
                ELSE IF conf_col[c].approved THEN "approved" ELSE "pending",
     opened |-> (fsm'[u].state = "waiting_for_submission" /\ fsm'[u].target_conf_id = c)]

\* what the message met and what it left: the parent index and the thread
\* it was handled with, and the thread afterwards
comment_reply(u, msg) ==
    LET c == fsm[u].target_conf_id IN
    [kind |-> "comment", rep |-> FALSE, self |-> FALSE, user |-> u, msg |-> msg,
     reply |-> comment_verdict(u, msg),
     conf |-> c,
     available |-> (c \in DOMAIN conf_col /\ conf_col[c].approved),
     parent_index |-> fsm[u].parent_index,
     waits |-> (handler'[u].pc = "notify"),
     before |-> IF c \in DOMAIN conf_col THEN conf_col[c].comments ELSE <<>>,
     after |-> IF c \in DOMAIN conf_col' THEN conf_col'[c].comments ELSE <<>>]

\* the same for the push that follows the notification
push_reply(u, delivered) ==
    LET c == handler[u].conf IN
    [kind |-> "push", rep |-> FALSE, self |-> FALSE, user |-> u,
     msg |-> handler[u].seen.msg, conf |-> c, delivered |-> delivered,
     available |-> (c \in DOMAIN conf_col /\ conf_col[c].approved),
     parent_index |-> handler[u].idx,
     read |-> handler[u].seen.comments,
     before |-> IF c \in DOMAIN conf_col THEN conf_col[c].comments ELSE <<>>,
     after |-> IF c \in DOMAIN conf_col' THEN conf_col'[c].comments ELSE <<>>]

NextComment ==
    \/ \E u \in Authors :
            next_id <= MaxThreads /\ submit_confession_to_db(u)
            /\ UNCHANGED dialogue /\ last' = NoCast
    \/ \E u \in Authors, c \in ConfIds :
            mod_ok[c] = 0 /\ cb_admin_ok(u, c) /\ UNCHANGED dialogue /\ last' = NoCast
    \/ \E u \in Authors : publish_sent(u) /\ UNCHANGED dialogue /\ last' = NoCast
    \/ \E u \in Authors, c \in ConfIds : cb_admin_no(u, c) /\ UNCHANGED dialogue /\ last' = NoCast
    \/ \E u \in Authors, c \in ConfIds, parent_index \in ParentIndexes :
            cb_comment_start(u, c, parent_index) /\ last' = comment_start_reply(u, c)
    \/ \E u \in Authors : fallback_resume(u) /\ last' = NoCast
    \/ \E u \in Authors : cancel_resume(u) /\ last' = NoCast
    \/ \E u \in Authors, msg \in CommentMessages :
            comment_submission(u, msg) /\ last' = comment_reply(u, msg)

SpecComment == Init /\ [][NextComment]_vars

\* ---------------------------------------------------------------- C19
\* C19: a comment message handled with a parent index outside
\* [-1, len(comments) - 1] appends nothing; with one inside, a comment that
\* is not refused for its content is appended once, at index len(comments),
\* carrying that parent index (by the handler's push, which may come after
\* the notification of the parent's author).
C19_ParentIndexValidated ==
    (\/ last.kind = "comment" /\ last.reply \in {"pushed", "error"} /\ ~last.waits
     \/ last.kind = "push")
        => IF last.parent_index \in (0 - 1)..(Len(last.before) - 1)
           THEN last.after = Append(last.before,
                    with_content(new_comment(last.user, last.parent_index), last.msg))
           ELSE last.after = last.before

\* ---------------------------------------------------------------- C20
\* C20: every stored comment at index i has parent_index -1 or
\* 0 <= parent_index < i.
C20_ParentIsEarlier ==
    \A c \in DOMAIN conf_col : \A k \in 1..Len(conf_col[c].comments) :
        LET parent_index == conf_col[c].comments[k].parent_index IN
        parent_index = 0 - 1 \/ (0 <= parent_index /\ parent_index < k - 1)

\* the lower half of C20 on its own: no stored comment has a parent index
\* under -1.  It fails without any overlap of handlers.
C20_ParentNotBelowTop ==
    \A c \in DOMAIN conf_col : \A k \in 1..Len(conf_col[c].comments) :
        conf_col[c].comments[k].parent_index >= 0 - 1

\* ---------------------------------------------------------------- C21
\* C21: a comment_start on a confession that is pending, rejected or unknown
\* opens no comment dialogue on it, a comment message whose target is not
\* stored as approved is not pushed, and the comments of a confession change
\* only in a step that finds it approved.
C21_AppendOnlyToApproved ==
    /\ [](/\ (last.kind = "comment_start" /\ last.status # "approved") => ~last.opened
          /\ (last.kind = "comment" /\ ~last.available)
                => (last.reply # "pushed" /\ last.after = last.before))
    /\ [][\A c \in DOMAIN conf_col :
            (c \notin DOMAIN conf_col' \/ conf_col'[c].comments # conf_col[c].comments)
                => (c \in DOMAIN conf_col' /\ conf_col[c].approved)
                   \/ (c \notin DOMAIN conf_col' /\ ~conf_col[c].approved
                       /\ conf_col[c].comments = <<>>)]_vars

\* a comment button pressed on a pending confession
C21_Witness ==
    /\ last.kind = "comment_start" /\ last.status = "pending"
    /\ ~last.opened
    /\ \A c \in DOMAIN conf_col : conf_col[c].comments = <<>>

\* ------------------------------------------------ threads of several users
Commenters == {u \in Users : u <= MaxCommenters}

\* messages of the commenters of a thread
ThreadMessages == {Msg("text", 5, 0), Msg("sticker", 0, 0)}

\* parent indexes of the buttons under a thread: Add Comment, and Reply
\* under the first comment
ButtonIndexes == (0 - 1)..0

\* a vote button under comment i, with the outcome of the notification that
\* cb_handle_comment_vote sends after its writes (send_vote_notification
\* catches every exception)
comment_vote_cast(u, c, i, vote_type, delivered) ==
    [kind |-> "cmt_vote", rep |-> FALSE, self |-> FALSE, user |-> u, conf |-> c,
     idx |-> i, vote_type |-> vote_type, delivered |-> delivered,
     reply |-> comment_vote_reply(u, c, i),
     prior |-> IF comment_vote_reply(u, c, i) = "ok"
               THEN current_vote_of(conf_col[c].comments[i + 1].comment_voters, u)
               ELSE 0,
     before |-> IF c \in DOMAIN conf_col THEN conf_col[c].comments ELSE <<>>,
     after |-> IF c \in DOMAIN conf_col' THEN conf_col'[c].comments ELSE <<>>]

NextThread ==
    \/ \E u \in Authors :
            next_id <= MaxThreads /\ submit_confession_to_db(u)
            /\ UNCHANGED dialogue /\ last' = NoCast
    \/ \E u \in Authors, c \in ConfIds :
            mod_ok[c] = 0 /\ cb_admin_ok(u, c) /\ UNCHANGED dialogue /\ last' = NoCast
    \/ \E u \in Authors : publish_sent(u) /\ UNCHANGED dialogue /\ last' = NoCast
    \/ \E u \in Commenters, c \in 1..MaxThreads, parent_index \in ButtonIndexes :
            cb_comment_start(u, c, parent_index) /\ last' = comment_start_reply(u, c)
    \/ \E u \in Commenters : fallback_resume(u) /\ last' = NoCast
    \/ \E u \in Commenters : cancel_resume(u) /\ last' = NoCast
    \/ \E u \in Commenters, msg \in ThreadMessages :
            comment_submission(u, msg) /\ last' = comment_reply(u, msg)
    \/ \E u \in Commenters, delivered \in BOOLEAN :
            comment_push(u, delivered) /\ last' = push_reply(u, delivered)

SpecThread == Init /\ [][NextThread]_vars

\* one commenter, and votes of everybody under the comments
NextVotes ==
    \/ \E u \in Authors :
            next_id <= MaxThreads /\ submit_confession_to_db(u)
            /\ UNCHANGED dialogue /\ last' = NoCast
    \/ \E u \in Authors, c \in ConfIds :
            mod_ok[c] = 0 /\ cb_admin_ok(u, c) /\ UNCHANGED dialogue /\ last' = NoCast
    \/ \E u \in Authors : publish_sent(u) /\ UNCHANGED dialogue /\ last' = NoCast
    \/ \E u \in Authors, c \in 1..MaxThreads, parent_index \in ButtonIndexes :
            cb_comment_start(u, c, parent_index) /\ last' = comment_start_reply(u, c)
    \/ \E u \in Authors : fallback_resume(u) /\ last' = NoCast
    \/ \E u \in Authors : cancel_resume(u) /\ last' = NoCast
    \/ \E u \in Authors, msg \in {Msg("text", 5, 0)} :
            comment_submission(u, msg) /\ last' = comment_reply(u, msg)
    \/ \E u \in Commenters, c \in 1..MaxThreads, i \in 0..(MaxReplies - 1),
          vote_type \in {"like", "dislike"}, delivered \in BOOLEAN :
            cb_handle_comment_vote(u, c, i, vote_type) /\ UNCHANGED dialogue
            /\ last' = comment_vote_cast(u, c, i, vote_type, delivered)

SpecVotes == Init /\ [][NextVotes]_vars

\* ---------------------------------------------------------------- C22
\* C22: the push of a comment on an approved confession adds the comment at
\* the end of the comments stored at that moment, those that other users
\* appended since the handler read the document included; the stored
\* comments stay as they are.
C22_NoLostAppend ==
    (\/ last.kind = "push" /\ last.available
     \/ last.kind = "comment" /\ last.reply = "pushed" /\ ~last.waits)
        => last.after = Append(last.before,
                with_content(new_comment(last.user, last.parent_index), last.msg))

\* a reply pushed after another user's comment arrived while the handler
\* waited for the notification of the parent's author
C22_Witness ==
    /\ last.kind = "push"
    /\ Len(last.before) > Len(last.read)
    /\ last.before[Len(last.before)].user_id # last.user
    /\ Len(last.after) = Len(last.before) + 1

\* ---------------------------------------------------------------- C23
\* what of a comment no operation writes: author, payload, parent index
Fixed(comment) == [comment EXCEPT !.likes = 0, !.dislikes = 0, !.comment_voters = <<>>]

\* C23: a confession with comments stays stored, its comments list only
\* grows, and every comment keeps its index, author, payload and parent
\* index; a vote on comment i changes nothing but comment i of that
\* confession and the karma of the comment's author.
C23_CommentsAppendOnly ==
    [][/\ \A c \in DOMAIN conf_col :
            conf_col[c].comments # <<>>
                => /\ c \in DOMAIN conf_col'
                   /\ Len(conf_col'[c].comments) >= Len(conf_col[c].comments)
                   /\ \A k \in 1..Len(conf_col[c].comments) :
                        Fixed(conf_col'[c].comments[k]) = Fixed(conf_col[c].comments[k])
       /\ last'.kind = "cmt_vote"
            => LET c == last'.conf
                   i == last'.idx IN
               /\ DOMAIN conf_col' = DOMAIN conf_col
               /\ \A d \in DOMAIN conf_col :
                    IF d = c /\ i < Len(conf_col[c].comments)
                    THEN conf_col'[d] = [conf_col[d] EXCEPT
                            !.comments[i + 1] = conf_col'[d].comments[i + 1]]
                    ELSE conf_col'[d] = conf_col[d]
               /\ \A x \in Users :
                    karma_col'[x] # karma_col[x]
                        => /\ c \in DOMAIN conf_col /\ i < Len(conf_col[c].comments)
                           /\ x = conf_col[c].comments[i + 1].user_id]_vars

\* a vote that changed the second comment of a thread of three, a reply
C23_Witness ==
    /\ last.kind = "cmt_vote" /\ last.reply = "ok" /\ last.idx = 1
    /\ Len(last.after) = MaxReplies
    /\ last.after[2].parent_index = 0
    /\ last.after # last.before

\* ------------------------------------------------------------ thread view
\* organize_comments_into_threads.build_tree: the comments whose parent_index
\* is the given one, in the order of comment_map (increasing index), each
\* with the tree of its replies.  A node holds the index of its comment.
RECURSIVE build_tree_from(_, _, _)
build_tree_from(comments, parent_index, i) ==
    IF i >= Len(comments) THEN <<>>
    ELSE (IF comments[i + 1].parent_index = parent_index
          THEN <<[comment |-> i, replies |-> build_tree_from(comments, i, 0)]>>
          ELSE <<>>)
         \o build_tree_from(comments, parent_index, i + 1)

build_tree(comments, parent_index) == build_tree_from(comments, parent_index, 0)

\* a flat view: every comment a top-level node without replies
organize_comments_flat(comments) ==
    [k \in 1..Len(comments) |-> [comment |-> k - 1, replies |-> <<>>]]

organize_comments_into_threads(comments) == build_tree(comments, 0 - 1)

\* send_comment_tree: the comments sent, in the order they are sent.  failed
\* holds the comments whose send_single_comment returns None: the loop
\* goes on to the next node and the replies of that comment are not sent.
RECURSIVE send_comment_tree_from(_, _, _)
send_comment_tree_from(tree, k, failed) ==
    IF k > Len(tree) THEN <<>>
    ELSE (IF tree[k].comment \in failed THEN <<>>
          ELSE <<tree[k].comment>> \o send_comment_tree_from(tree[k].replies, 1, failed))
         \o send_comment_tree_from(tree, k + 1, failed)

\* a view that sends the last comment first
send_comment_tree_backwards(tree, failed) ==
    LET sent == send_comment_tree_from(tree, 1, failed) IN
    [k \in 1..Len(sent) |-> sent[Len(sent) + 1 - k]]

send_comment_tree(tree, failed) == send_comment_tree_from(tree, 1, failed)

\* ``... and N more comments not shown'': the N of the message that follows
\* the comment tree, 0 when there is none
more_not_shown(comments) ==
    IF Len(comments) > ViewCap THEN Len(comments) - ViewCap ELSE 0

\* the thread view with a query on the id alone
show_confession_any_status(u, c, main_ok, failed) ==
    IF c \notin DOMAIN conf_col
    THEN [kind |-> "view", rep |-> FALSE, self |-> FALSE, user |-> u, conf |-> c,
          reply |-> "NotFound", failed |-> {}, comments |-> <<>>, tree |-> <<>>,
          sent |-> <<>>, more |-> 0]
    ELSE [kind |-> "view", rep |-> FALSE, self |-> FALSE, user |-> u, conf |-> c,
          reply |-> "shown", failed |-> failed, comments |-> conf_col[c].comments,
          tree |-> organize_comments_into_threads(conf_col[c].comments),
          sent |-> send_comment_tree(organize_comments_into_threads(conf_col[c].comments), failed),
          more |-> more_not_shown(conf_col[c].comments)]

\* show_confession_and_comments: what the viewer is sent.  main_ok tells
\* whether the confession message itself could be sent.
show_confession_and_comments(u, c, main_ok, failed) ==
    IF ~(c \in DOMAIN conf_col /\ conf_col[c].approved)
    THEN [kind |-> "view", rep |-> FALSE, self |-> FALSE, user |-> u, conf |-> c,
          reply |-> "NotFound", failed |-> {}, comments |-> <<>>, tree |-> <<>>,
          sent |-> <<>>, more |-> 0]
    ELSE IF ~main_ok
    THEN [kind |-> "view", rep |-> FALSE, self |-> FALSE, user |-> u, conf |-> c,
          reply |-> "Could not display", failed |-> {}, comments |-> <<>>, tree |-> <<>>,
          sent |-> <<>>, more |-> 0]
    ELSE LET comments == conf_col[c].comments
             tree == organize_comments_into_threads(comments) IN
         [kind |-> "view", rep |-> FALSE, self |-> FALSE, user |-> u, conf |-> c,
          reply |-> "shown", failed |-> failed, comments |-> comments, tree |-> tree,
          sent |-> send_comment_tree(tree, failed),
          more |-> more_not_shown(comments)]

\* send_single_comment puts the author of every comment it formats, the
\* confession's own author excepted, into ANONYMOUS_ID_MAP
linked(view) ==
    IF view.reply # "shown" THEN {}
    ELSE {view.comments[i + 1].user_id :
            i \in {view.sent[k] : k \in 1..Len(view.sent)} \cup view.failed}
         \ {conf_col[view.conf].user_id}

\* the thread view by itself, as it follows a comment
view_thread(u, c, main_ok, failed) ==
    /\ last' = show_confession_and_comments(u, c, main_ok, failed)
    /\ ANONYMOUS_ID_MAP' = ANONYMOUS_ID_MAP \cup linked(last')
    /\ UNCHANGED <<content, drafts>>

\* threads to look at: every list of up to MaxShape comments whose parent
\* indexes are -1 or an earlier index, and those of MaxShape comments
\* followed by top-level comments up to ViewCap and up to MaxLong comments
RECURSIVE Shapes(_)
Shapes(n) ==
    IF n = 0 THEN {<<>>}
    ELSE {Append(s, p) : s \in Shapes(n - 1), p \in (0 - 1)..(n - 2)}

Padded(s, n) == [k \in 1..n |-> IF k <= Len(s) THEN s[k] ELSE 0 - 1]

Threads ==
    UNION {Shapes(n) : n \in 0..MaxShape}
        \cup {Padded(s, n) : s \in Shapes(MaxShape), n \in {ViewCap, MaxLong}}

\* an approved confession of user 1, number 1, with a thread written by
\* user 2
InitView ==
    /\ \E s \in Threads :
        conf_col = <<[user_id |-> 1, approved |-> TRUE, number |-> 1,
                      channel_message_id |-> 1, likes |-> 0, dislikes |-> 0,
                      voters |-> <<>>,
                      comments |-> [k \in 1..Len(s) |-> new_comment(2, s[k])]]>>
    /\ karma_col = [u \in Users |-> 0]
    /\ GLOBAL_AUTO_APPROVE = FALSE
    /\ next_id = 2
    /\ handler = [u \in Users |-> Idle]
    /\ channel = [c \in ConfIds |-> IF c = 1 THEN <<1>> ELSE <<>>]
    /\ alerts = {}
    /\ top_number = 1
    /\ mod_ok = [c \in ConfIds |-> IF c = 1 THEN 1 ELSE 0]
    /\ last = NoCast
    /\ clock = Epoch
    /\ last_confession_time = <<>>
    /\ fsm = [u \in Users |-> NoData]
    /\ tasks = [u \in Users |-> NoTasks]
    /\ conf_text = [c \in ConfIds |-> None]
    /\ users_col = [u \in Users |-> Member]
    /\ ANONYMOUS_ID_MAP = {}

\* sends that fail: none, or that of one comment
Failures(c) ==
    LET idx == IF c \in DOMAIN conf_col THEN 0..(Len(conf_col[c].comments) - 1) ELSE {} IN
    {{}} \cup {{i} : i \in idx}

NextView ==
    \E u \in Authors, c \in ConfIds, main_ok \in BOOLEAN :
        \E failed \in Failures(c) : view_thread(u, c, main_ok, failed)

SpecView == InitView /\ [][NextView]_vars

\* ---------------------------------------------------------------- C24
\* the parent_index invariant of a comments list
ValidThread(comments) ==
    \A k \in 1..Len(comments) :
        comments[k].parent_index \in (0 - 1)..(k - 2)

\* the nodes of a forest with the node they hang under (-1: a root), in the
\* order of the forest
RECURSIVE Placed(_, _, _)
Placed(tree, k, parent) ==
    IF k > Len(tree) THEN <<>>
    ELSE <<<<tree[k].comment, parent>>>>
         \o Placed(tree[k].replies, 1, tree[k].comment)
         \o Placed(tree, k + 1, parent)

RECURSIVE Under(_, _, _)
Under(comments, x, a) ==
    LET parent_index == comments[x + 1].parent_index IN
    IF parent_index < 0 \/ parent_index >= x THEN FALSE
    ELSE parent_index = a \/ Under(comments, parent_index, a)

\* C25: the comments of a view are sent in depth-first pre-order: a comment
\* after its parent, the replies under a comment before anything else that
\* follows the comment, and comments with the same parent in increasing
\* index; with no failed send, every comment is sent.
C25_DepthFirstInSubmissionOrder ==
    (last.kind = "view" /\ last.reply = "shown" /\ ValidThread(last.comments))
        => LET comments == last.comments
               sent == last.sent
               at == 1..Len(sent) IN
           /\ \A k, m \in at : sent[k] = sent[m] => k = m
           /\ last.failed = {} => Len(sent) = Len(comments)
           /\ \A m \in at :
                comments[sent[m] + 1].parent_index # 0 - 1
                    => \E k \in 1..(m - 1) : sent[k] = comments[sent[m] + 1].parent_index
           /\ \A k, m \in at :
                (/\ comments[sent[k] + 1].parent_index = comments[sent[m] + 1].parent_index
                 /\ sent[k] < sent[m]) => k < m
           /\ \A k, m, r \in at :
                (k < m /\ m < r /\ Under(comments, sent[r], sent[k]))
                    => Under(comments, sent[m], sent[k])

\* a thread of two top-level comments, the first with a reply that was
\* written after the second: the reply is sent before the second
C25_Witness ==
    /\ last.kind = "view" /\ last.reply = "shown" /\ last.failed = {}
    /\ Len(last.comments) = 3
    /\ last.comments[2].parent_index = 0 - 1
    /\ last.comments[3].parent_index = 0
    /\ last.sent = <<0, 2, 1>>

\* ---------------------------------------------------------------- C26
\* C26: a view whose sends all succeed shows at most ViewCap comments, and
\* it ends with the ``N more'' message exactly when comments were left out,
\* N being the number of comments that were not sent.
C26_CappedWithExactMarker ==
    (last.kind = "view" /\ last.reply = "shown" /\ last.failed = {}
        /\ ValidThread(last.comments))
        => /\ Len(last.sent) <= ViewCap
           /\ (last.more > 0) = (Len(last.sent) < Len(last.comments))
           /\ last.more = Len(last.comments) - Len(last.sent)

\* ------------------------------------------------------------------ reads
\* the documents of a query in the order of the collection
Approved == {c \in DOMAIN conf_col : conf_col[c].approved}

\* /find <n>: find_one({number: n, approved: True}), then the thread view of
\* the document found
cmd_find(u, n, main_ok) ==
    /\ \/ /\ \E c \in Approved : conf_col[c].number = n
          /\ LET c == CHOOSE d \in Approved :
                        /\ conf_col[d].number = n
                        /\ \A e \in Approved : conf_col[e].number = n => d <= e
             IN last' = [show_confession_and_comments(u, c, main_ok, {}) EXCEPT !.kind = "find"]
       \/ /\ ~\E c \in Approved : conf_col[c].number = n
          /\ last' = [show_confession_and_comments(u, None, main_ok, {}) EXCEPT !.kind = "find"]
    /\ ANONYMOUS_ID_MAP' = ANONYMOUS_ID_MAP \cup linked(last')
    /\ UNCHANGED <<content, drafts>>

\* /random: count_documents({approved: True}), a random skip under the
\* count, and the thread view of the document at that place
cmd_random(u, skip, main_ok) ==
    /\ skip < Cardinality(Approved) \/ (skip = 0 /\ Approved = {})
    /\ \/ /\ Approved # {}
          /\ LET c == CHOOSE d \in Approved :
                        Cardinality({e \in Approved : e < d}) = skip
             IN last' = [show_confession_and_comments(u, c, main_ok, {}) EXCEPT !.kind = "random"]
       \/ /\ Approved = {}
          /\ last' = [show_confession_and_comments(u, None, main_ok, {}) EXCEPT !.kind = "random"]
    /\ ANONYMOUS_ID_MAP' = ANONYMOUS_ID_MAP \cup linked(last')
    /\ UNCHANGED <<content, drafts>>

NextRead ==
    \/ \E u \in Users : submit_confession_to_db(u) /\ UNCHANGED dialogue /\ last' = NoCast
    \/ \E u \in Users, c \in ConfIds : cb_admin_ok(u, c) /\ UNCHANGED dialogue /\ last' = NoCast
    \/ \E u \in Users : publish_sent(u) /\ UNCHANGED dialogue /\ last' = NoCast
    \/ \E u \in Users, kind \in {"config", "other"} :
            publish_failed(u, kind) /\ UNCHANGED dialogue /\ last' = NoCast
    \/ \E u \in Users, c \in ConfIds : cb_admin_no(u, c) /\ UNCHANGED dialogue /\ last' = NoCast
    \/ \E u \in Users : cmd_reset_numbering(u) /\ UNCHANGED dialogue /\ last' = NoCast
    \/ \E u \in Authors, c \in ConfIds, main_ok \in BOOLEAN : view_thread(u, c, main_ok, {})
    \/ \E u \in Authors, n \in 1..MaxConf, main_ok \in BOOLEAN : cmd_find(u, n, main_ok)
    \/ \E u \in Authors, skip \in 0..(MaxConf - 1), main_ok \in BOOLEAN :
            cmd_random(u, skip, main_ok)

SpecRead == Init /\ [][NextRead]_vars

Reads == {"view", "find", "random"}

Report(success, alert_ok) ==
    IF success THEN "posted" ELSE IF alert_ok THEN "failed to post" ELSE "raised"

Published_report(u, success, cause, alert_ok) ==
    [kind |-> "publish", rep |-> FALSE, self |-> FALSE, user |-> u,
     conf |-> handler[u].conf, by |-> handler[u].by, attempts |-> handler[u].attempt + 1,
     success |-> success, cause |-> cause, report |-> Report(success, alert_ok)]

\* the channel send returned: update, group copy, return (doc, True)
publish_succeeds(u) ==
    /\ publish_sent(u)
    /\ last' = Published_report(u, TRUE, "none", TRUE)
    /\ UNCHANGED dialogue

\* the channel send raised: sleep and go round again, or alert and
\* return (doc, False)
publish_fails(u, kind, alert_ok) ==
    /\ publish_failed(u, kind)
    /\ last' = IF handler'[u].pc = "send"
               THEN [kind |-> "retry", rep |-> FALSE, self |-> FALSE, user |-> u]
               ELSE Published_report(u, FALSE, kind, alert_ok)
    /\ UNCHANGED dialogue

\* cb_admin_actions, no: with the chats it writes to after the delete: the
\* moderation message of the admin who pressed the button is edited (or
\* answered) and the callback is answered
reject(u, c) ==
    /\ cb_admin_no(u, c)
    /\ last' = IF c \in DOMAIN conf_col /\ c \notin DOMAIN conf_col'
               THEN [kind |-> "reject", rep |-> FALSE, self |-> FALSE, user |-> u,
                     conf |-> c, author |-> conf_col[c].user_id, told |-> {u}]
               ELSE NoCast
    /\ UNCHANGED dialogue

NextPublish ==
    \/ \E u \in Users : submit_confession_to_db(u) /\ UNCHANGED dialogue /\ last' = NoCast
    \/ \E u \in Users, c \in ConfIds : cb_admin_ok(u, c) /\ UNCHANGED dialogue /\ last' = NoCast
    \/ \E u \in Users : publish_succeeds(u)
    \/ \E u \in Users, kind \in {"config", "other"}, alert_ok \in BOOLEAN :
            publish_fails(u, kind, alert_ok)
    \/ \E u \in Users, c \in ConfIds : reject(u, c)
    \/ \E u \in Users : cmd_toggle_auto_approve(u) /\ UNCHANGED dialogue /\ last' = NoCast

SpecPublish == Init /\ [][NextPublish]_vars

\* C28: every step of a publish in flight is a success that ends it with the
\* report of a post, a failure before the third attempt that leads to the
\* next attempt, or the failure of the third attempt that ends it with the
\* report of a failure; no publish is past its third attempt
C28_ThreeAttemptsThenReport ==
    /\ [](\A u \in Users : handler[u].attempt < max_attempts)
    /\ [][\A u \in Users :
            (handler[u].pc = "send" /\ handler'[u] # handler[u]) =>
                \/ /\ handler'[u].pc = "send"
                   /\ handler'[u].attempt = handler[u].attempt + 1
                   /\ Len(channel'[handler[u].conf]) = Posts(handler[u].conf)
                \/ /\ handler'[u].pc = "idle"
                   /\ last'.kind = "publish" /\ last'.user = u
                   /\ last'.success
                   /\ Len(channel'[handler[u].conf]) = Posts(handler[u].conf) + 1
                   /\ last'.report = "posted"
                \/ /\ handler'[u].pc = "idle"
                   /\ last'.kind = "publish" /\ last'.user = u
                   /\ ~last'.success
                   /\ last'.attempts = max_attempts
                   /\ Len(channel'[handler[u].conf]) = Posts(handler[u].conf)
                   /\ last'.report = "failed to post"]_vars

\* what does hold of publish_confession: never more than max_attempts
\* attempts, a post in the channel exactly on success, and a posted report
\* exactly on success
C28_AtMostThreeAndPostedIffSuccess ==
    /\ [](\A u \in Users : handler[u].attempt < max_attempts)
    /\ [][last'.kind = "publish" /\ handler[last'.user].pc = "send" =>
            /\ last'.attempts <= max_attempts
            /\ (last'.report = "posted") = last'.success
            /\ last'.success =
                (Len(channel'[last'.conf]) = Len(channel[last'.conf]) + 1)]_vars

\* C29: a reject that removes a Pending confession sends word to the
\* confession's author, and the confession stays out of the store from then
\* on
C29_RejectNotifiesAuthor ==
    /\ [][last'.kind = "reject" /\ last' # last =>
            /\ last'.conf \notin DOMAIN conf_col'
            /\ last'.author \in last'.told]_vars
    /\ [][\A c \in ConfIds :
            (c < next_id /\ c \notin DOMAIN conf_col) => c \notin DOMAIN conf_col']_vars

\* the half that holds: a rejected confession is gone and stays gone
C29_RejectionStays ==
    /\ [][last'.kind = "reject" /\ last' # last =>
            last'.conf \notin DOMAIN conf_col']_vars
    /\ [][\A c \in ConfIds :
            (c < next_id /\ c \notin DOMAIN conf_col) => c \notin DOMAIN conf_col']_vars

\* ---------------------------------------------------------------- C30
\* C30: a publish whose notification of the admins could not be sent ends as
\* one whose notification was sent: with the same documents and with the
\* report of its caller
C30_FailedNoticeNeverFailsOperation ==
    [][(last'.kind = "publish" /\ handler[last'.user].pc = "send" /\ ~last'.success) =>
            /\ conf_col' = conf_col
            /\ last'.report = "failed to post"]_vars

\* the notifications that go through send_notification and
\* send_vote_notification: the reply is pushed after the notification of the
\* parent's author whether it was delivered or not
C30_ReplyPushedWhateverDelivery ==
    [][(last'.kind = "push" /\ handler[last'.user].pc = "notify" /\ last'.available) =>
            /\ Len(last'.after) = Len(last'.before) + 1
            /\ last'.after[Len(last'.after)].user_id = last'.user
            /\ last'.after[Len(last'.after)].parent_index = last'.parent_index]_vars

\* and a vote under a comment is stored before its notification is sent
C30_VoteStoredWhateverDelivery ==
    [][(last'.kind = "cmt_vote" /\ last' # last /\ last'.reply = "ok") =>
            /\ last'.after # last'.before
            /\ Len(last'.after) = Len(last'.before)]_vars

\* --------------------------------------------------------- nickname change
\* the clock in steps of days: ten days, and a second short of the cooldown
DaySteps == {10 * 24 * 60 * 60, NICKNAME_CHANGE_COOLDOWN - 1}

day_tick(d) ==
    /\ clock + d <= Epoch + MaxNickDays * 24 * 60 * 60
    /\ clock' = clock + d
    /\ UNCHANGED <<content, last_confession_time, fsm, tasks, conf_text, users_col, ANONYMOUS_ID_MAP>>

\* messages sent in the editing_nickname state: a well-formed nickname (one
\* of two), one refused for its length or its characters
Nicknames == {1, 2}
NicknameMessages == Nicknames \cup {None}

\* cb_edit_nickname_start up to ``await callback.answer()''
edit_nickname_press(u) ==
    /\ Suspended(u) < MaxTasks
    /\ tasks' = Suspend(u, "edit_nickname")
    /\ UNCHANGED <<content, clock, last_confession_time, fsm, conf_text, users_col, ANONYMOUS_ID_MAP>>

\* ``time_since_change < NICKNAME_CHANGE_COOLDOWN'' on the profile read
in_nickname_cooldown(u) ==
    /\ users_col[u].last_nickname_change # None
    /\ clock - users_col[u].last_nickname_change < NICKNAME_CHANGE_COOLDOWN

\* ``int((NICKNAME_CHANGE_COOLDOWN - time_since_change) / (24*60*60)) + 1''
days_left(u) ==
    ((NICKNAME_CHANGE_COOLDOWN - (clock - users_col[u].last_nickname_change))
        \div (24 * 60 * 60)) + 1

\* the edit_nickname button with no test of the cooldown
edit_nickname_without_cooldown(u) ==
    /\ tasks[u]["edit_nickname"] > 0
    /\ tasks' = Resume(u, "edit_nickname")
    /\ fsm' = [fsm EXCEPT ![u].state = "editing_nickname"]
    /\ UNCHANGED <<content, clock, last_confession_time, conf_text, users_col, ANONYMOUS_ID_MAP>>

\* cb_edit_nickname_start after callback.answer(): the profile is read, the
\* cooldown is tested and the state is set
cb_edit_nickname_start(u) ==
    /\ tasks[u]["edit_nickname"] > 0
    /\ tasks' = Resume(u, "edit_nickname")
    /\ IF in_nickname_cooldown(u)
       THEN UNCHANGED fsm
       ELSE fsm' = [fsm EXCEPT ![u].state = "editing_nickname"]
    /\ UNCHANGED <<content, clock, last_confession_time, conf_text, users_col, ANONYMOUS_ID_MAP>>

\* handle_new_nickname: the validation, the update_one (which may raise)
\* and state.clear()
handle_new_nickname(u, new_nickname, stored) ==
    /\ fsm[u].state = "editing_nickname"
    /\ IF new_nickname = None
       THEN UNCHANGED <<fsm, users_col, ANONYMOUS_ID_MAP>>
       ELSE /\ fsm' = [fsm EXCEPT ![u] = NoData]
            /\ users_col' = IF stored
                            THEN [users_col EXCEPT ![u].nickname = new_nickname,
                                                   ![u].last_nickname_change = clock]
                            ELSE users_col
    /\ UNCHANGED <<content, clock, last_confession_time, tasks, conf_text,
                   ANONYMOUS_ID_MAP>>

\* what the button answered
nickname_start_reply(u) ==
    [kind |-> "edit_nickname", rep |-> FALSE, self |-> FALSE, user |-> u,
     reply |-> IF fsm'[u].state = "editing_nickname" THEN "ok" ELSE "cooldown",
     days |-> IF in_nickname_cooldown(u) THEN days_left(u) ELSE 0,
     changed_before |-> (users_col[u].last_nickname_change # None)]

\* what the message did
nickname_reply(u, new_nickname, stored) ==
    [kind |-> "nickname", rep |-> FALSE, self |-> FALSE, user |-> u,
     reply |-> IF new_nickname = None THEN "invalid"
               ELSE IF stored THEN "changed" ELSE "error",
     at |-> clock,
     previous |-> users_col[u].last_nickname_change]

NextNickname ==
    \/ \E d \in DaySteps : day_tick(d) /\ last' = NoCast
    \/ \E u \in Commenters : edit_nickname_press(u) /\ last' = NoCast
    \/ \E u \in Commenters : cb_edit_nickname_start(u) /\ last' = nickname_start_reply(u)
    \/ \E u \in Commenters, new_nickname \in NicknameMessages, stored \in BOOLEAN :
            handle_new_nickname(u, new_nickname, stored)
            /\ last' = nickname_reply(u, new_nickname, stored)

SpecNickname == Init /\ [][NextNickname]_vars

\* C31: a nickname change that is stored comes NICKNAME_CHANGE_COOLDOWN or
\* more after the user's previous one, whatever buttons and messages of
\* that user are in flight, and the button of a user who never changed the
\* nickname opens the dialogue
C31_NicknameCooldown ==
    [][/\ (last'.kind = "nickname" /\ last'.reply = "changed"
            /\ fsm[last'.user].state = "editing_nickname" /\ last'.previous # None)
                => last'.at - last'.previous >= NICKNAME_CHANGE_COOLDOWN
       /\ (last'.kind = "edit_nickname" /\ ~last'.changed_before)
                => last'.reply = "ok"]_vars

\* a second change of the nickname, and an attempt refused before it
C31_Witness ==
    /\ last.kind = "nickname" /\ last.reply = "changed"
    /\ last.previous # None
    /\ last.at - last.previous >= NICKNAME_CHANGE_COOLDOWN

\* ---------------------------------------------------------------- C32
\* C32: the confession store, the numbering and the cooldown table change
\* only in the step of a Done button that finds a draft with at least one
\* tag selected; every other step of the submission dialogue, the steps
\* that abandon a draft included, leaves them as they were
C32_NothingStoredBeforeDone ==
    [][(<<conf_col, next_id, top_number, last_confession_time, conf_text>>'
            # <<conf_col, next_id, top_number, last_confession_time, conf_text>>)
        => \E u \in Users :
            /\ tasks[u]["Done"] > 0 /\ tasks'[u]["Done"] = tasks[u]["Done"] - 1
            /\ fsm[u].has_draft /\ fsm[u].selected_tags # {}
            /\ fsm'[u] = NoData
            /\ DOMAIN conf_col' = DOMAIN conf_col \cup {next_id}
            /\ conf_col'[next_id].user_id = u
            /\ next_id' = next_id + 1]_vars

\* a confession is stored and its author has a new draft with a tag
\* selected, of which the store and the cooldown table show nothing
C32_Witness ==
    /\ next_id = 2 /\ DOMAIN conf_col = {1}
    /\ \E u \in Users :
        /\ fsm[u].state = "waiting_for_tags"
        /\ fsm[u].has_draft /\ fsm[u].selected_tags # {}
        /\ last_confession_time[u] < clock

\* -------------------------------------------------------------- deep links
\* the payload of /start: none; comment_<hex>, the hex being the id of a
\* confession or no ObjectId at all (BadId); view_profile_anon_<hex>, the hex
\* being the anonymous id of a user or of nobody (None); anything else
BadId == MaxConf + 1
Tokens ==
    {[kind |-> "none"], [kind |-> "malformed"]}
    \cup {[kind |-> "comment", id |-> c] : c \in ConfIds \cup {BadId}}
    \cup {[kind |-> "profile", id |-> a] : a \in Users \cup {None}}

\* get_user_id_from_anonymous_id: the reverse lookup in ANONYMOUS_ID_MAP
get_user_id_from_anonymous_id(a) == IF a \in ANONYMOUS_ID_MAP THEN a ELSE None

\* what /start answers
start_reply(u, token, main_ok) ==
    IF ~users_col[u].agreed_to_rules THEN "rules"
    ELSE IF token.kind = "comment"
         THEN show_confession_and_comments(u, token.id, main_ok, {}).reply
    ELSE IF token.kind = "profile"
         THEN (IF get_user_id_from_anonymous_id(token.id) # None THEN "profile"
               ELSE "NotFound")
    ELSE "menu"

\* cmd_start: the rules for a user who has not agreed; a comment link clears
\* the FSM state and goes into the thread view; a profile link of a known
\* anonymous id clears the state and shows the profile, of an unknown one
\* answers not found and shows the menu; every other payload shows the menu
cmd_start(u, token, main_ok) ==
    /\ last' = [kind |-> "start", rep |-> FALSE, self |-> FALSE, user |-> u,
                token |-> token, reply |-> start_reply(u, token, main_ok),
                before |-> fsm[u]]
    /\ fsm' = IF \/ (users_col[u].agreed_to_rules /\ token.kind = "comment")
                 \/ start_reply(u, token, main_ok) = "profile"
              THEN [fsm EXCEPT ![u] = NoData]
              ELSE fsm
    /\ ANONYMOUS_ID_MAP' =
            IF users_col[u].agreed_to_rules /\ token.kind = "comment"
            THEN ANONYMOUS_ID_MAP
                    \cup linked(show_confession_and_comments(u, token.id, main_ok, {}))
            ELSE ANONYMOUS_ID_MAP
    /\ UNCHANGED <<content, clock, last_confession_time, tasks, conf_text, users_col>>

NextStart ==
    \/ \E u \in Authors : submit_confession_to_db(u) /\ UNCHANGED dialogue /\ last' = NoCast
    \/ \E u \in Authors, c \in ConfIds : cb_admin_no(u, c) /\ UNCHANGED dialogue /\ last' = NoCast
    \/ \E u \in Commenters : cmd_confess_start(u) /\ last' = confess_reply(u)
    \/ \E u \in Commenters : confess_resume(u) /\ last' = NoCast
    \/ \E u \in Commenters, token \in Tokens, main_ok \in BOOLEAN : cmd_start(u, token, main_ok)

\* an approved confession with at most one comment, of another user
InitStart == InitView /\ Len(conf_col[1].comments) <= 1

SpecStart == InitStart /\ [][NextStart]_vars

\* the payloads that resolve to nothing
Unresolved(token) ==
    \/ token.kind = "malformed"
    \/ token.kind = "comment" /\ token.id \notin Approved
    \/ token.kind = "profile" /\ token.id \notin ANONYMOUS_ID_MAP

\* C33: /start with a payload that is malformed or names no approved
\* confession and no known persona answers NotFound and leaves the store,
\* the dialogues and the map of the profile links as they were
C33_BadTokenIsNotFound ==
    [][(last'.kind = "start" /\ last' # last /\ Unresolved(last'.token)) =>
            /\ last'.reply = "NotFound"
            /\ content' = content
            /\ dialogue' = dialogue]_vars

\* what holds: such a payload opens neither a thread nor a profile and
\* leaves the store as it was
C33_BadTokenOpensNothing ==
    [][(last'.kind = "start" /\ last' # last /\ Unresolved(last'.token)) =>
            /\ last'.reply \in {"NotFound", "menu"}
            /\ content' = content
            /\ ANONYMOUS_ID_MAP' = ANONYMOUS_ID_MAP]_vars

\* ------------------------------------------------- votes with failing writes
\* the store writes of a cast, in the order of the code: the update_one of
\* the confession document, then the update_one of the karma document.  A
\* write that raises ends the handler there: neither handler catches it
\* between the two writes.
Faults == {"none", "conf", "karma"}

\* no earlier failure has left its trace in the karma collection
Settled == \A u \in Users : karma_col[u] = StoreScore(DOMAIN conf_col, u)

\* cb_handle_vote with the write named by failed raising
vote_writes(u, c, vote_type, failed) ==
    IF vote_reply(u, c) # "ok" \/ failed = "conf"
    THEN UNCHANGED <<conf_col, karma_col>>
    ELSE LET doc == vote_doc(u, c)
             cur == current_vote_of(doc.voters, u)
             val == vote_value_of(vote_type)
         IN /\ conf_col' = [conf_col EXCEPT
                    ![c].likes = likes_after(doc.likes, cur, vote_type),
                    ![c].dislikes = dislikes_after(doc.dislikes, cur, vote_type),
                    ![c].voters = voters_after(doc.voters, u, val)]
            /\ karma_col' = IF failed = "karma" THEN karma_col
                            ELSE karma_after(doc.user_id, u, karma_change_of(cur, val))

\* cb_handle_comment_vote with the write named by failed raising
comment_vote_writes(u, c, i, vote_type, failed) ==
    IF comment_vote_reply(u, c, i) # "ok" \/ failed = "conf"
    THEN UNCHANGED <<conf_col, karma_col>>
    ELSE LET comment == comment_vote_doc(u, c, i)
             cur == current_vote_of(comment.comment_voters, u)
             val == vote_value_of(vote_type)
         IN /\ conf_col' = [conf_col EXCEPT
                    ![c].comments[i + 1].likes = likes_after(comment.likes, cur, vote_type),
                    ![c].comments[i + 1].dislikes =
                        dislikes_after(comment.dislikes, cur, vote_type),
                    ![c].comments[i + 1].comment_voters =
                        voters_after(comment.comment_voters, u, val)]
            /\ karma_col' = IF failed = "karma" THEN karma_col
                            ELSE karma_after(comment.user_id, u, karma_change_of(cur, val))

cast_reply(target, u, c, i, failed, reply) ==
    [kind |-> "cast", rep |-> FALSE, self |-> FALSE, target |-> target, user |-> u,
     conf |-> c, idx |-> i, failed |-> failed, reply |-> reply]

cast_vote_faulty(u, c, vote_type, failed) ==
    /\ c \in 1..(next_id - 1)
    /\ failed # "none" => Settled
    /\ vote_writes(u, c, vote_type, failed)
    /\ Frame
    /\ UNCHANGED dialogue
    /\ last' = cast_reply("conf", u, c, 0 - 1, failed, vote_reply(u, c))

cast_comment_vote_faulty(u, c, i, vote_type, failed) ==
    /\ c \in 1..(next_id - 1)
    /\ failed # "none" => Settled
    /\ comment_vote_writes(u, c, i, vote_type, failed)
    /\ Frame
    /\ UNCHANGED dialogue
    /\ last' = cast_reply("comment", u, c, i, failed, comment_vote_reply(u, c, i))

NextFaults ==
    \/ \E u \in Authors :
            next_id <= MaxThreads /\ submit_confession_to_db(u) /\ UNCHANGED dialogue /\ last' = NoCast
    \/ \E u \in Authors, c \in ConfIds : cb_admin_ok(u, c) /\ UNCHANGED dialogue /\ last' = NoCast
    \/ \E u \in Authors : publish_sent(u) /\ UNCHANGED dialogue /\ last' = NoCast
    \/ \E u \in Users, c \in ConfIds, t \in VoteTypes, failed \in Faults :
            cast_vote_faulty(u, c, t, failed)
    \/ \E u \in Users, c \in ConfIds, i \in CommentIdx, t \in VoteTypes, failed \in Faults :
            cast_comment_vote_faulty(u, c, i, t, failed)
    \/ \E u \in Users, c \in ConfIds, p \in (0 - 1)..(MaxComments - 1) :
            handle_comment_submission(u, c, p) /\ UNCHANGED dialogue /\ last' = NoCast

SpecFaults == Init /\ [][NextFaults]_vars

\* C34: a cast one of whose writes fails leaves the target's counts and
\* voters and the author's karma both changed or both as they were
C34_CastIsAllOrNothing ==
    [][(last'.kind = "cast" /\ last'.failed # "none" /\ last'.reply = "ok") =>
            (conf_col' # conf_col) = (karma_col' # karma_col)]_vars

\* what holds: a cast whose first write fails changes nothing, and a cast
\* with no failing write changes both
C34_FirstWriteFailsCleanly ==
    [][(last'.kind = "cast" /\ last'.failed # "karma" /\ last'.reply = "ok"
            /\ last' # last) =>
            /\ (conf_col' # conf_col) = (last'.failed = "none")
            /\ (karma_col' # karma_col) = (last'.failed = "none")]_vars

\* ---------------------------------------------------------------- C35
\* get_comment_keyboard: ``comment.get('_index', 0)'' is the index that the
\* like, dislike and reply buttons of a comment carry in their callback data
comment_index_of(comment) ==
    IF "_index" \in DOMAIN comment THEN comment["_index"] ELSE 0

\* the index on the buttons of each comment a view has sent, in the order sent
keyboards(view) ==
    [k \in 1..Len(view.sent) |-> comment_index_of(view.comments[view.sent[k] + 1])]

\* C35: the buttons sent with the comment stored at index i carry index i
C35_ButtonsAddressTheirComment ==
    (last.kind = "view" /\ last.reply = "shown") =>
        \A k \in 1..Len(last.sent) : keyboards(last)[k] = last.sent[k]

\* what holds: the buttons of every comment carry index 0
C35_ButtonsAddressTheFirstComment ==
    (last.kind = "view" /\ last.reply = "shown") =>
        \A k \in 1..Len(last.sent) : keyboards(last)[k] = 0

\* ---------------------------------------------------------------- C36
\* no publish_confession of confession c is between its send and its return
Finished(c) == \A u \in Users : ~(handler[u].pc = "send" /\ handler[u].conf = c)

\* C36: every post on the channel whose publish has finished belongs to a
\* stored, approved confession that carries the number of the post
C36_PostsHaveTheirConfession ==
    \A c \in ConfIds :
        (Finished(c) /\ Posts(c) > 0) =>
            /\ c \in DOMAIN conf_col
            /\ conf_col[c].approved
            /\ \A k \in 1..Posts(c) : channel[c][k] = conf_col[c].number

\* what holds: a stored confession with a finished post is approved and
\* carries the number of its last post
C36_StoredPostsAreApproved ==
    \A c \in ConfIds :
        (Finished(c) /\ Posts(c) > 0 /\ c \in DOMAIN conf_col) =>
            /\ conf_col[c].approved
            /\ \E k \in 1..Posts(c) : channel[c][k] = conf_col[c].number

\* ------------------------------------------------------- rules agreement
\* updates of a user: a message with a text (a command, the agree text of
\* the reply keyboard, any other text), a message without one (a photo, a
\* sticker), a callback (the agree button, any other button)
allowed_commands == {"/start", "/help", "/rules", "/ping", "/test"}
Texts == allowed_commands \cup {"/confess", "I Agree to the Rules", "hello"}
Updates ==
    {[type |-> "message", text |-> t] : t \in Texts \cup {"none"}}
    \cup {[type |-> "callback", data |-> d] : d \in {"agree_rules", "vote", "ok"}}

\* Python's if / elif / else of rules_agreement_check for a user who has
\* not agreed: "handler" where the code returns handler(event, data),
\* "blocked" where it answers and returns, "fall" where a branch ends
\* without a return
agreement_branch(update) ==
    IF update.type = "message" /\ update.text # "none"
    THEN (IF update.text \in allowed_commands THEN "handler"
          ELSE IF update.text = "I Agree to the Rules" THEN "handler"
          ELSE "fall")
    ELSE IF update.type = "callback" /\ update.data = "agree_rules" THEN "handler"
    ELSE "blocked"

\* rules_agreement_check: does the update reach a handler?  A branch that
\* falls out of the if reaches the ``return await handler(event, data)'' at
\* the end of the function.
rules_agreement_check(u, update) ==
    IF users_col[u].agreed_to_rules THEN TRUE
    ELSE agreement_branch(update) \in {"handler", "fall"}

\* an update goes through the middleware; the agree button, when it reaches
\* cb_agree_rules, sets the flag
feed_update(u, update) ==
    /\ last' = [kind |-> "update", rep |-> FALSE, self |-> FALSE, user |-> u,
                update |-> update, agreed |-> users_col[u].agreed_to_rules,
                reached |-> rules_agreement_check(u, update)]
    /\ users_col' = IF /\ rules_agreement_check(u, update)
                       /\ update.type = "callback" /\ update.data = "agree_rules"
                    THEN [users_col EXCEPT ![u].agreed_to_rules = TRUE]
                    ELSE users_col
    /\ UNCHANGED <<content, clock, last_confession_time, fsm, tasks, conf_text,
                   ANONYMOUS_ID_MAP>>

\* nobody has agreed yet
InitRules ==
    /\ conf_col = <<>>
    /\ karma_col = [u \in Users |-> 0]
    /\ GLOBAL_AUTO_APPROVE = FALSE
    /\ next_id = 1
    /\ handler = [u \in Users |-> Idle]
    /\ channel = [c \in ConfIds |-> <<>>]
    /\ alerts = {}
    /\ top_number = 0
    /\ mod_ok = [c \in ConfIds |-> 0]
    /\ last = NoCast
    /\ clock = Epoch
    /\ last_confession_time = <<>>
    /\ fsm = [u \in Users |-> NoData]
    /\ tasks = [u \in Users |-> NoTasks]
    /\ conf_text = [c \in ConfIds |-> None]
    /\ users_col = [u \in Users |-> NewProfile]
    /\ ANONYMOUS_ID_MAP = {}

NextRules == \E u \in Users, update \in Updates : feed_update(u, update)

SpecRules == InitRules /\ [][NextRules]_vars

\* the updates the middleware is to let through before the agreement
Exempt(update) ==
    \/ update.type = "message" /\ update.text \in allowed_commands
    \/ update.type = "message" /\ update.text = "I Agree to the Rules"
    \/ update.type = "callback" /\ update.data = "agree_rules"

\* C37: an update of a user who has not agreed reaches a handler only if it
\* is one of the exempt ones, and the flag never goes back to false
C37_OnlyExemptUpdatesPass ==
    /\ []((last.kind = "update" /\ ~last.agreed /\ last.reached) => Exempt(last.update))
    /\ [][\A u \in Users :
            users_col[u].agreed_to_rules => users_col'[u].agreed_to_rules]_vars

\* what holds: callbacks and messages without a text are stopped, exempt
\* updates pass, and the flag never goes back to false
C37_CallbacksAndMediaAreStopped ==
    /\ []((last.kind = "update" /\ ~last.agreed) =>
            /\ Exempt(last.update) => last.reached
            /\ (~last.reached) =
                    (~Exempt(last.update)
                     /\ (last.update.type = "callback" \/ last.update.text = "none")))
    /\ [][\A u \in Users :
            users_col[u].agreed_to_rules => users_col'[u].agreed_to_rules]_vars

\* ---------------------------------------------------------------- C38
\* C38: a moderation click of a user outside ADMIN_IDS changes no
\* confession, posts nothing and starts no publish; a Pending confession
\* is deleted only by the reject click of an admin and becomes Approved
\* only as the publish started by an admin's approve click completes
C38_OnlyAdminsModerate ==
    /\ []((last.kind = "click" /\ ~last.admin) => ~last.changed)
    /\ [][\A c \in DOMAIN conf_col : ~conf_col[c].approved =>
            /\ c \notin DOMAIN conf_col'
                => (last'.kind = "click" /\ last'.admin /\ last'.action = "no")
            /\ (c \in DOMAIN conf_col' /\ conf_col'[c].approved)
                => \E u \in ADMIN_IDS :
                        /\ handler[u].pc = "send" /\ handler[u].conf = c
                        /\ handler[u].by = "admin"
                        /\ handler'[u].pc = "idle"
            /\ (c \in DOMAIN conf_col' /\ ~conf_col'[c].approved)
                => conf_col'[c] = conf_col[c]]_vars

\* a user outside ADMIN_IDS has clicked on a Pending confession, which is
\* still Pending
C38_Witness ==
    /\ last.kind = "click" /\ ~last.admin /\ last.pending
    /\ ~GLOBAL_AUTO_APPROVE
    /\ \E c \in DOMAIN conf_col : ~conf_col[c].approved /\ Posts(c) = 0

\* ------------------------------------------------------ callback routing
\* The chats a button can be pressed in.  The FSM context of an update is
\* keyed by chat and user, so the submission draft of the private chat is not
\* the state of a press on a channel post.
Chats == {"private", "channel"}

\* callback data: ``vote:<type>:<id>'', ``cmt_vote:<type>:<id>:<index>'',
\* ``ok:<id>'', ``no:<id>''
Callback(kind, c, i, vote_type) == [kind |-> kind, conf |-> c, idx |-> i, vote_type |-> vote_type]
Callbacks ==
    {Callback("vote", c, 0 - 1, v) : c \in ConfIds, v \in VoteTypes}
    \cup {Callback("cmt_vote", c, i, v) : c \in ConfIds, i \in CommentIdx, v \in VoteTypes}
    \cup {Callback(k, c, 0 - 1, "none") : k \in {"ok", "no"}, c \in ConfIds}

\* the state the dispatcher reads for a press of u in a chat
state_in(u, chat) == IF chat = "private" THEN fsm[u].state ELSE "none"

\* The callback handler the dispatcher calls: the first one registered whose
\* filter passes.  handle_tag_selection (filter: the state alone) is
\* registered before cb_handle_comment_vote, cb_handle_vote and
\* cb_admin_actions; no handler registered before it matches these data.
first_handler(u, chat, data) ==
    IF state_in(u, chat) = "waiting_for_tags" THEN "handle_tag_selection"
    ELSE IF data.kind = "cmt_vote" THEN "cb_handle_comment_vote"
    ELSE IF data.kind = "vote" THEN "cb_handle_vote"
    ELSE "cb_admin_actions"

\* A press of a vote or moderation button, through the handler the
\* dispatcher picks.  handle_tag_selection answers the press and returns on
\* data that does not start with ``tag:''.
route_callback(u, chat, data) ==
    /\ chat = "channel" => data.kind = "vote"
    /\ CASE first_handler(u, chat, data) = "handle_tag_selection" ->
                UNCHANGED content
         [] first_handler(u, chat, data) = "cb_handle_vote" ->
                cb_handle_vote(u, data.conf, data.vote_type)
         [] first_handler(u, chat, data) = "cb_handle_comment_vote" ->
                cb_handle_comment_vote(u, data.conf, data.idx, data.vote_type)
         [] OTHER ->
                IF data.kind = "ok" THEN cb_admin_ok(u, data.conf)
                ELSE cb_admin_no(u, data.conf)
    /\ UNCHANGED dialogue

\* whether the press is one the pressed handler acts on: a vote of somebody
\* other than the author on an approved confession or a comment of it, an
\* admin's approve or reject of a pending confession
Eligible(u, data) ==
    CASE data.kind = "vote" ->
            Votable("conf", data.conf, data.idx) /\ TargetAuthor("conf", data.conf, data.idx) # u
      [] data.kind = "cmt_vote" ->
            Votable("comment", data.conf, data.idx)
            /\ TargetAuthor("comment", data.conf, data.idx) # u
      [] OTHER ->
            u \in ADMIN_IDS /\ data.conf \in DOMAIN conf_col /\ ~conf_col[data.conf].approved

\* what a press met and did
Routed(u, chat, data) ==
    [kind |-> "callback", rep |-> FALSE, self |-> FALSE, user |-> u, chat |-> chat,
     data |-> data,
     handler |-> first_handler(u, chat, data),
     state |-> fsm[u].state,
     eligible |-> Eligible(u, data),
     changed |-> (content' # content)]

RouteMessages == {Msg("text", 10, 0)}
RouteTags == {"Love", "Done"}

\* an approved confession of user 2, number 1, with a comment of user 3;
\* nobody is in a dialogue
InitRoute ==
    /\ conf_col = <<[user_id |-> 2, approved |-> TRUE, number |-> 1,
                     channel_message_id |-> 1, likes |-> 0, dislikes |-> 0,
                     voters |-> <<>>,
                     comments |-> <<new_comment(3, 0 - 1)>>]>>
    /\ karma_col = [u \in Users |-> 0]
    /\ GLOBAL_AUTO_APPROVE = FALSE
    /\ next_id = 2
    /\ handler = [u \in Users |-> Idle]
    /\ channel = [c \in ConfIds |-> IF c = 1 THEN <<1>> ELSE <<>>]
    /\ alerts = {}
    /\ top_number = 1
    /\ mod_ok = [c \in ConfIds |-> IF c = 1 THEN 1 ELSE 0]
    /\ last = NoCast
    /\ clock = Epoch
    /\ last_confession_time = <<>>
    /\ fsm = [u \in Users |-> NoData]
    /\ tasks = [u \in Users |-> NoTasks]
    /\ conf_text = [c \in ConfIds |-> None]
    /\ users_col = [u \in Users |-> Member]
    /\ ANONYMOUS_ID_MAP = {}

\* the clock, a cooldown at a time
cooldown_tick ==
    /\ clock < Epoch + CONFESSION_COOLDOWN
    /\ clock' = clock + CONFESSION_COOLDOWN
    /\ UNCHANGED <<content, last_confession_time, fsm, tasks, conf_text, users_col,
                   ANONYMOUS_ID_MAP>>

NextRoute ==
    \/ cooldown_tick /\ last' = NoCast
    \/ \E u \in Users : publish_sent(u) /\ UNCHANGED dialogue /\ last' = NoCast
    \/ \E u \in Authors : cmd_confess_start(u) /\ last' = NoCast
    \/ \E u \in Authors : confess_resume(u) /\ last' = NoCast
    \/ \E u \in Authors, msg \in RouteMessages :
            handle_confession_text(u, msg) /\ last' = NoCast
    \/ \E u \in Authors : text_resume(u) /\ last' = NoCast
    \/ \E u \in Authors, a \in RouteTags : tag_dispatch(u, a) /\ last' = NoCast
    \/ \E u \in Authors, a \in RouteTags : handle_tag_selection(u, a) /\ last' = NoCast
    \/ \E u \in Authors, chat \in Chats, data \in Callbacks :
            route_callback(u, chat, data) /\ last' = Routed(u, chat, data)

SpecRoute == InitRoute /\ [][NextRoute]_vars

\* ---------------------------------------------------------------- C39
\* C39: a user's own draft never disables their other actions: the vote of an
\* eligible voter on an approved confession or comment, and an admin's
\* approve or reject of a pending confession, take effect whatever step of a
\* submission draft the user is in, the tag-selection step included.
C39_DraftDoesNotDisable ==
    (last.kind = "callback" /\ last.eligible) => last.changed

\* A press is lost exactly when it is made in the private chat during the
\* tag-selection step: every eligible press routed to its own handler takes
\* effect, and none routed to handle_tag_selection does.
C39_OnlyTheTagStepSwallows ==
    last.kind = "callback" =>
        /\ (last.handler = "handle_tag_selection") =
                (last.chat = "private" /\ last.state = "waiting_for_tags")
        /\ last.handler = "handle_tag_selection" => ~last.changed
        /\ (last.eligible /\ last.handler # "handle_tag_selection") => last.changed

\* a vote from the channel post is cast in the middle of the tag step
C39_ChannelVoteDuringTags ==
    /\ last.kind = "callback"
    /\ last.chat = "channel"
    /\ last.state = "waiting_for_tags"
    /\ last.eligible
    /\ last.changed

\* an admin in the tag step presses Approve or Reject under a pending
\* confession
C39_ModerationDuringTags ==
    /\ last.kind = "callback"
    /\ last.data.kind \in {"ok", "no"}
    /\ last.state = "waiting_for_tags"
    /\ last.eligible

\* a vote under a comment is pressed in the tag step
C39_CommentVoteDuringTags ==
    /\ last.kind = "callback"
    /\ last.data.kind = "cmt_vote"
    /\ last.state = "waiting_for_tags"
    /\ last.eligible

====
